---- MODULE Spec2Model ----
(***************************************************************************)
(* A model of mvx / cpx: the single-file transfer engine (src/src/file.rs), *)
(* the directory merge (src/src/dir.rs) and the batch orchestrator with its *)
(* Ctrl-C handler (src/src/lib.rs), over an explicit filesystem tree.       *)
(*                                                                         *)
(* A path is a sequence of names; a path given by the caller also carries   *)
(* whether its text ends in '/'.  The filesystem maps every path of the     *)
(* universe to a node: nothing, a directory, or a regular file whose        *)
(* content is a sequence of chunks (one chunk = one buffer of the fallback  *)
(* copy loop).                                                              *)
(***************************************************************************)
EXTENDS Integers, Sequences, FiniteSets, TLC

\* ---------------------------------------------------------------- bounds
MaxDepth == 3       \* longest path of the universe, in components
MaxChunks == 2      \* largest file, in copy-buffer chunks
MaxSignals == 2     \* interrupt signals delivered in one run
MaxFaults == 1      \* fatal I/O errors the environment injects in one run

\* ----------------------------------------------------------------- paths
\* Three entry names; "a" is a prefix of "a.txt", and '.' sorts before '/'.
Names == {"a", "a.txt", "d"}

Paths == UNION {[1..n -> Names] : n \in 0..MaxDepth}

Root == << >>

Parent(p) == SubSeq(p, 1, Len(p) - 1)

FileName(p) == p[Len(p)]

Join(p, q) == p \o q

IsPrefix(p, q) == Len(p) <= Len(q) /\ SubSeq(q, 1, Len(p)) = p

IsProperPrefix(p, q) == Len(p) < Len(q) /\ IsPrefix(p, q)

StripPrefix(p, q) == SubSeq(q, Len(p) + 1, Len(q))

\* A caller-supplied path: its components and whether its text ends in '/'.
P(p) == [p |-> p, slash |-> FALSE]

PS(p) == [p |-> p, slash |-> TRUE]

\* ------------------------------------------------------------ filesystem
NoneN == [k |-> "none", c |-> << >>]

DirN == [k |-> "dir", c |-> << >>]

FileN(c) == [k |-> "file", c |-> c]

NameIdx(n) == CASE n = "a" -> 0 [] n = "a.txt" -> 1 [] OTHER -> 2

\* The size (in chunks) and content a file created at path p starts with:
\* sizes vary with the path and include the empty file; chunks name their
\* file of origin, so the contents of different non-empty files differ.
SizeOf(p) == (Len(p) + NameIdx(FileName(p))) % (MaxChunks + 1)

ContentOf(p) == [i \in 1..SizeOf(p) |-> [o |-> p, i |-> i]]

\* The tree holding regular files F and directories D (and their ancestors).
MkTree(F, D) ==
    [p \in Paths |->
        IF p \in F THEN FileN(ContentOf(p))
        ELSE IF p = Root \/ p \in D \/ \E q \in F \cup D : IsProperPrefix(p, q)
             THEN DirN
             ELSE NoneN]

\* No file has anything below it, and nothing is deeper than the universe
\* allows a file to be placed into.
WellFormedSets(F, D) ==
    /\ F \cap D = {}
    /\ \A x \in F : \A q \in F \cup D : ~IsProperPrefix(x, q)
    /\ \A q \in D : Len(q) < MaxDepth

Trees(FC, DC) ==
    {MkTree(F, D) : <<F, D>> \in {fd \in (SUBSET FC) \X (SUBSET DC) :
                                      WellFormedSets(fd[1], fd[2])}}

\* std::path::Path::{exists, is_file, is_dir}: stat() of the path's text; a
\* trailing '/' on a regular file makes stat fail with ENOTDIR.
IsDir(f, d) == f[d.p].k = "dir"

IsFile(f, d) == f[d.p].k = "file" /\ ~d.slash

Exists(f, d) == IsDir(f, d) \/ IsFile(f, d)

OkR(f) == [ok |-> TRUE, err |-> "none", fs |-> f]

ErrR(e, f) == [ok |-> FALSE, err |-> e, fs |-> f]

\* mkdir(2)
Mkdir(f, p) ==
    IF f[p].k # "none" THEN ErrR("AlreadyExists", f)
    ELSE IF f[Parent(p)].k = "dir" THEN OkR([f EXCEPT ![p] = DirN])
    ELSE IF \E q \in Paths : IsProperPrefix(q, p) /\ f[q].k = "file"
         THEN ErrR("NotADirectory", f)
         ELSE ErrR("NotFound", f)

\* (a create_dir_all that creates nothing and reports success)
CreateDirAllSkipped(f, p) == OkR(f)

\* std::fs::create_dir_all: mkdir; on NotFound create the parent first and
\* retry; any other error is fine if the path is a directory by then.
RECURSIVE CreateDirAll(_, _)
CreateDirAll(f, p) ==
    IF p = Root THEN OkR(f)
    ELSE LET r == Mkdir(f, p) IN
         IF r.ok THEN r
         ELSE IF r.err = "NotFound" THEN
                 LET up == CreateDirAll(f, Parent(p)) IN
                 IF up.ok THEN Mkdir(up.fs, p) ELSE up
         ELSE IF f[p].k = "dir" THEN OkR(f)
         ELSE r

\* The device a path lives on: everything at or below the mount point is on a
\* second filesystem (Root as mount point: one filesystem only).
Dev(mount, p) == IF mount # Root /\ IsPrefix(mount, p) THEN 2 ELSE 1

\* (a rename that leaves the source in place)
RenameKeepsSource(f, mount, s, d) ==
    IF f[s].k = "none" THEN ErrR("NotFound", f)
    ELSE IF f[Parent(d)].k # "dir" THEN ErrR("NotFound", f)
    ELSE IF f[d].k = "dir" THEN ErrR("IsADirectory", f)
    ELSE IF Dev(mount, s) # Dev(mount, d) THEN ErrR("CrossesDevices", f)
    ELSE OkR([f EXCEPT ![d] = f[s]])

\* (a rename that drops the source although it fails across devices)
RenameDropsSourceOnFailure(f, mount, s, d) ==
    IF f[s].k = "none" THEN ErrR("NotFound", f)
    ELSE IF f[Parent(d)].k # "dir" THEN ErrR("NotFound", f)
    ELSE IF f[d].k = "dir" THEN ErrR("IsADirectory", f)
    ELSE IF Dev(mount, s) # Dev(mount, d)
         THEN ErrR("CrossesDevices", [f EXCEPT ![s] = NoneN])
    ELSE IF s = d THEN OkR(f)
    ELSE OkR([f EXCEPT ![d] = f[s], ![s] = NoneN])

\* (a rename that refuses to replace an existing destination)
RenameNoReplace(f, mount, s, d) ==
    IF f[s].k = "none" THEN ErrR("NotFound", f)
    ELSE IF f[Parent(d)].k # "dir" THEN ErrR("NotFound", f)
    ELSE IF f[d].k = "dir" THEN ErrR("IsADirectory", f)
    ELSE IF Dev(mount, s) # Dev(mount, d) THEN ErrR("CrossesDevices", f)
    ELSE IF s = d THEN OkR(f)
    ELSE IF f[d].k # "none" THEN ErrR("AlreadyExists", f)
    ELSE OkR([f EXCEPT ![d] = f[s], ![s] = NoneN])

\* rename(2) of a regular file.
Rename(f, mount, s, d) ==
    IF f[s].k = "none" THEN ErrR("NotFound", f)
    ELSE IF f[Parent(d)].k # "dir" THEN ErrR("NotFound", f)
    ELSE IF f[d].k = "dir" THEN ErrR("IsADirectory", f)
    ELSE IF Dev(mount, s) # Dev(mount, d) THEN ErrR("CrossesDevices", f)
    ELSE IF s = d THEN OkR(f)
    ELSE OkR([f EXCEPT ![d] = f[s], ![s] = NoneN])

\* (an unlink that reports success and removes nothing)
RemoveFileKeeps(f, p) ==
    IF f[p].k = "none" THEN ErrR("NotFound", f)
    ELSE IF f[p].k = "dir" THEN ErrR("IsADirectory", f)
    ELSE OkR(f)

\* unlink(2)
RemoveFile(f, p) ==
    IF f[p].k = "none" THEN ErrR("NotFound", f)
    ELSE IF f[p].k = "dir" THEN ErrR("IsADirectory", f)
    ELSE OkR([f EXCEPT ![p] = NoneN])

\* rmdir(2)
RemoveDir(f, p) ==
    IF f[p].k = "none" THEN ErrR("NotFound", f)
    ELSE IF f[p].k = "file" THEN ErrR("NotADirectory", f)
    ELSE IF \E q \in Paths : q # p /\ Parent(q) = p /\ f[q].k # "none"
         THEN ErrR("DirectoryNotEmpty", f)
         ELSE OkR([f EXCEPT ![p] = NoneN])

\* (a clone that consumes its source)
ReflinkMoves(f, mount, reflinkOk, s, d) ==
    IF f[s].k # "file" THEN ErrR("NotFound", f)
    ELSE IF f[d].k # "none" THEN ErrR("AlreadyExists", f)
    ELSE IF f[Parent(d)].k # "dir" THEN ErrR("NotFound", f)
    ELSE IF Dev(mount, s) # Dev(mount, d) THEN ErrR("CrossesDevices", f)
    ELSE IF ~reflinkOk THEN ErrR("Unsupported", f)
    ELSE OkR([f EXCEPT ![d] = f[s], ![s] = NoneN])

\* reflink::reflink: clone s into a destination that must not exist yet; a
\* failed clone leaves no destination behind.
Reflink(f, mount, reflinkOk, s, d) ==
    IF f[s].k # "file" THEN ErrR("NotFound", f)
    ELSE IF f[d].k # "none" THEN ErrR("AlreadyExists", f)
    ELSE IF f[Parent(d)].k # "dir" THEN ErrR("NotFound", f)
    ELSE IF Dev(mount, s) # Dev(mount, d) THEN ErrR("CrossesDevices", f)
    ELSE IF ~reflinkOk THEN ErrR("Unsupported", f)
    ELSE OkR([f EXCEPT ![d] = f[s]])

\* (an open for writing that keeps what the file held)
CreateNoTrunc(f, d) ==
    IF f[d].k = "dir" THEN ErrR("IsADirectory", f)
    ELSE IF f[Parent(d)].k # "dir" THEN ErrR("NotFound", f)
    ELSE IF f[d].k = "file" THEN OkR(f)
    ELSE OkR([f EXCEPT ![d] = FileN(<< >>)])

\* File::create: create the file or truncate it to empty.
CreateTrunc(f, d) ==
    IF f[d].k = "dir" THEN ErrR("IsADirectory", f)
    ELSE IF f[Parent(d)].k # "dir" THEN ErrR("NotFound", f)
    ELSE OkR([f EXCEPT ![d] = FileN(<< >>)])

\* ------------------------------------------------------------------ state
VARIABLES
    fs,        \* the filesystem: Paths -> node
    fs0,       \* the filesystem when the call started (never changes)
    call,      \* the call under way: entry point, srcs, dest and the Ctx fields
    env,       \* the environment: mount point and reflink support
    pc,        \* position of the main thread
    ret,       \* labels to continue at when the current callee returns Ok
    bi,        \* run_batch: index of the current source
    m,         \* merge_or_copy frame
    t,         \* move_or_copy frame
    result,    \* what the entry point returned, once pc = "done"
    ctrlc,     \* the cancellation flag (ctrlc_flag's `flag`)
    pressed,   \* the handler's `already_pressed`
    hpc,       \* position of the signal handler thread
    nsig,      \* signals delivered so far
    faults,    \* fatal I/O errors injected so far
    out,       \* summary lines printed by run_batch, in order
    prog       \* values passed to the progress callback, in order

vars == <<fs, fs0, call, env, pc, ret, bi, m, t, result, ctrlc, pressed, hpc,
          nsig, faults, out, prog>>

inputs == <<fs0, call, env>>

sigvars == <<ctrlc, pressed, hpc, nsig>>

NoResult == [kind |-> "none", path |-> Root, err |-> "none"]

OkResult == [kind |-> "Ok", path |-> Root, err |-> "none"]

NoT == [src |-> Root, dest |-> P(Root), rdest |-> Root, copied |-> 0,
        size |-> 0, msg |-> "none"]

NoM == [src |-> Root, dest |-> P(Root), files |-> << >>, k |-> 0,
        total |-> 0, pos |-> 0, init_pos |-> 0, msgs |-> << >>,
        stack |-> << >>, msg |-> "none", resorted |-> FALSE]

Terminal == {"done", "exit130", "killed"}

\* The caller's `?`: an Err leaves every frame at once.
Fail(kind, path, err) ==
    /\ pc' = "done"
    /\ result' = [kind |-> kind, path |-> path, err |-> err]
    /\ ret' = << >>

\* Return Ok to the caller, or out of the entry point.
ReturnOk ==
    IF ret = << >>
    THEN pc' = "done" /\ result' = OkResult /\ ret' = ret
    ELSE pc' = Head(ret) /\ ret' = Tail(ret) /\ result' = result

\* A fatal I/O error may be injected while the budget lasts.
InjectChoices == IF faults < MaxFaults THEN {FALSE, TRUE} ELSE {FALSE}

\* ------------------------------------------------- file.rs: ensure_dest
\* (ensure_dest without its force check)
EnsureDestNoForceCheck(f, src, dest, force) ==
    LET join == IsDir(f, dest) \/ (~Exists(f, dest) /\ dest.slash)
        d2 == IF join /\ src # Root
              THEN P(Join(dest.p, <<FileName(src)>>))
              ELSE dest
        bad(kind, path) == [ok |-> FALSE, kind |-> kind, path |-> path]
    IN  IF f[src].k = "none" THEN bad("SourceNotFound", src)
        ELSE IF f[src].k # "file" THEN bad("SourceNotFile", src)
        ELSE IF join /\ src = Root THEN bad("NoFileName", src)
        ELSE IF Exists(f, d2) /\ ~IsFile(f, d2) THEN bad("DestNotFile", d2.p)
        ELSE [ok |-> TRUE, kind |-> "Ok", path |-> d2.p]

\* (ensure_dest without its trailing-separator rule)
EnsureDestNoSlashRule(f, src, dest, force) ==
    LET join == IsDir(f, dest)
        d2 == IF join /\ src # Root
              THEN P(Join(dest.p, <<FileName(src)>>))
              ELSE dest
        bad(kind, path) == [ok |-> FALSE, kind |-> kind, path |-> path]
    IN  IF f[src].k = "none" THEN bad("SourceNotFound", src)
        ELSE IF f[src].k # "file" THEN bad("SourceNotFile", src)
        ELSE IF join /\ src = Root THEN bad("NoFileName", src)
        ELSE IF Exists(f, d2) /\ ~IsFile(f, d2) THEN bad("DestNotFile", d2.p)
        ELSE IF Exists(f, d2) /\ ~force THEN bad("DestExists", d2.p)
        ELSE [ok |-> TRUE, kind |-> "Ok", path |-> d2.p]

\* (ensure_dest that lets force skip the kind check on the destination)
EnsureDestForceOverridesKind(f, src, dest, force) ==
    LET join == IsDir(f, dest) \/ (~Exists(f, dest) /\ dest.slash)
        d2 == IF join /\ src # Root
              THEN P(Join(dest.p, <<FileName(src)>>))
              ELSE dest
        bad(kind, path) == [ok |-> FALSE, kind |-> kind, path |-> path]
    IN  IF f[src].k = "none" THEN bad("SourceNotFound", src)
        ELSE IF f[src].k # "file" THEN bad("SourceNotFile", src)
        ELSE IF join /\ src = Root THEN bad("NoFileName", src)
        ELSE IF Exists(f, d2) /\ ~IsFile(f, d2) /\ ~force
        THEN bad("DestNotFile", d2.p)
        ELSE IF Exists(f, d2) /\ ~force THEN bad("DestExists", d2.p)
        ELSE [ok |-> TRUE, kind |-> "Ok", path |-> d2.p]

EnsureDest(f, src, dest, force) ==
    LET join == IsDir(f, dest) \/ (~Exists(f, dest) /\ dest.slash)
        d2 == IF join /\ src # Root
              THEN P(Join(dest.p, <<FileName(src)>>))
              ELSE dest
        bad(kind, path) == [ok |-> FALSE, kind |-> kind, path |-> path]
    IN  IF f[src].k = "none" THEN bad("SourceNotFound", src)
        ELSE IF f[src].k # "file" THEN bad("SourceNotFile", src)
        ELSE IF join /\ src = Root THEN bad("NoFileName", src)
        ELSE IF Exists(f, d2) /\ ~IsFile(f, d2) THEN bad("DestNotFile", d2.p)
        ELSE IF Exists(f, d2) /\ ~force THEN bad("DestExists", d2.p)
        ELSE [ok |-> TRUE, kind |-> "Ok", path |-> d2.p]

\* (a classification that falls back on a cross-device error only)
RecoverableCrossDeviceOnly(err) == err = "CrossesDevices"

\* The two primitive failures that fall back to the buffered copy.
Recoverable(err) == err \in {"CrossesDevices", "Unsupported"}

\* ------------------------------------------------ file.rs: move_or_copy
\* (a transfer that creates the destination's parent before resolving)
FileEnsureDestAfterParent ==
    /\ pc = "f_ensure"
    /\ fs' = CreateDirAll(fs, Parent(t.dest.p)).fs
    /\ LET r == EnsureDest(fs', t.src, t.dest, call.force) IN
         IF r.ok
         THEN /\ pc' = "f_mkparent"
              /\ t' = [t EXCEPT !.rdest = r.path]
              /\ UNCHANGED <<result, ret>>
         ELSE /\ Fail(r.kind, r.path, "none")
              /\ UNCHANGED t
    /\ UNCHANGED <<inputs, bi, m, sigvars, faults, out, prog>>

FileEnsureDest ==
    /\ pc = "f_ensure"
    /\ LET r == EnsureDest(fs, t.src, t.dest, call.force) IN
         IF r.ok
         THEN /\ pc' = "f_mkparent"
              /\ t' = [t EXCEPT !.rdest = r.path]
              /\ UNCHANGED <<result, ret>>
         ELSE /\ Fail(r.kind, r.path, "none")
              /\ UNCHANGED t
    /\ UNCHANGED <<fs, inputs, bi, m, sigvars, faults, out, prog>>

FileCreateParent ==
    /\ pc = "f_mkparent"
    /\ LET r == CreateDirAll(fs, Parent(t.rdest)) IN
         /\ fs' = r.fs
         /\ IF r.ok
            THEN /\ pc' = IF call.moc = "Move" THEN "f_rename" ELSE "f_rmdest"
                 /\ UNCHANGED <<result, ret>>
            ELSE Fail("Io", Parent(t.rdest), r.err)
    /\ UNCHANGED <<inputs, bi, m, t, sigvars, faults, out, prog>>

\* (a result match that reports success whatever the primitive returned)
AfterPrimitiveHidesErrors(r, okMsg) ==
    IF r.ok \/ ~Recoverable(r.err) THEN t' = [t EXCEPT !.msg = okMsg] /\ ReturnOk
    ELSE pc' = "f_meta" /\ UNCHANGED <<t, result, ret>>

\* What follows the native primitive's result r (lines 44-67).
AfterPrimitive(r, okMsg) ==
    IF r.ok THEN t' = [t EXCEPT !.msg = okMsg] /\ ReturnOk
    ELSE IF Recoverable(r.err)
         THEN pc' = "f_meta" /\ UNCHANGED <<t, result, ret>>
         ELSE Fail("Io", t.rdest, r.err) /\ UNCHANGED t

FileRename ==
    /\ pc = "f_rename"
    /\ \E inj \in InjectChoices :
         LET r == IF inj THEN ErrR("Other", fs)
                  ELSE Rename(fs, env.mount, t.src, t.rdest) IN
           /\ faults' = IF inj THEN faults + 1 ELSE faults
           /\ fs' = r.fs
           /\ AfterPrimitive(r, "Renamed")
    /\ UNCHANGED <<inputs, bi, m, sigvars, out, prog>>

FileRemoveDest ==
    /\ pc = "f_rmdest"
    /\ IF fs[t.rdest].k # "none"
       THEN LET r == RemoveFile(fs, t.rdest) IN
              /\ fs' = r.fs
              /\ IF r.ok THEN pc' = "f_reflink" /\ UNCHANGED <<result, ret>>
                 ELSE Fail("Io", t.rdest, r.err)
       ELSE pc' = "f_reflink" /\ UNCHANGED <<fs, result, ret>>
    /\ UNCHANGED <<inputs, bi, m, t, sigvars, faults, out, prog>>

FileReflink ==
    /\ pc = "f_reflink"
    /\ \E inj \in InjectChoices :
         LET r == IF inj THEN ErrR("Other", fs)
                  ELSE Reflink(fs, env.mount, env.reflinkOk, t.src, t.rdest) IN
           /\ faults' = IF inj THEN faults + 1 ELSE faults
           /\ fs' = r.fs
           /\ AfterPrimitive(r, "Reflinked")
    /\ UNCHANGED <<inputs, bi, m, sigvars, out, prog>>

FileMetadata ==
    /\ pc = "f_meta"
    /\ IF fs[t.src].k = "none"
       THEN Fail("Io", t.src, "NotFound") /\ UNCHANGED t
       ELSE /\ pc' = "c_open"
            /\ t' = [t EXCEPT !.size = Len(fs[t.src].c)]
            /\ UNCHANGED <<result, ret>>
    /\ UNCHANGED <<fs, inputs, bi, m, sigvars, faults, out, prog>>

\* ----------------------------------------------- file.rs: buffered_copy
CopyOpen ==
    /\ pc = "c_open"
    /\ IF fs[t.src].k # "file"
       THEN Fail("Io", t.src, "NotFound") /\ UNCHANGED <<fs, t>>
       ELSE LET r == CreateTrunc(fs, t.rdest) IN
              /\ fs' = r.fs
              /\ IF r.ok
                 THEN /\ pc' = "c_loop"
                      /\ t' = [t EXCEPT !.copied = 0]
                      /\ UNCHANGED <<result, ret>>
                 ELSE Fail("Io", t.rdest, r.err) /\ UNCHANGED t
    /\ UNCHANGED <<inputs, bi, m, sigvars, faults, out, prog>>

\* (a copy loop that reports the size of the chunk just written)
CopyChunkReportsChunkSize ==
    /\ pc = "c_loop"
    /\ IF t.copied >= Len(fs[t.src].c)
       THEN /\ pc' = "c_flush"
            /\ UNCHANGED <<fs, t, m, result, ret, faults, prog>>
       ELSE \E inj \in InjectChoices :
              IF inj
              THEN /\ faults' = faults + 1
                   /\ Fail("Io", t.rdest, "Other")
                   /\ UNCHANGED <<fs, t, m, prog>>
              ELSE /\ fs' = [fs EXCEPT ![t.rdest].c =
                                 Append(@, fs[t.src].c[t.copied + 1])]
                   /\ t' = [t EXCEPT !.copied = @ + 1]
                   /\ prog' = Append(prog, [file |-> t.src, n |-> 1])
                   /\ m' = IF ret # << >> /\ Head(ret) = "m_next"
                           THEN [m EXCEPT !.pos = m.init_pos + t.copied + 1]
                           ELSE m
                   /\ UNCHANGED <<pc, result, ret, faults>>
    /\ UNCHANGED <<inputs, bi, sigvars, out>>

\* (a copy loop that reads the flag before each chunk and exits when set)
CopyChunkChecksFlag ==
    /\ pc = "c_loop"
    /\ IF ctrlc
       THEN /\ pc' = "exit130"
            /\ UNCHANGED <<fs, t, m, result, ret, faults, prog>>
       ELSE IF t.copied >= Len(fs[t.src].c)
       THEN /\ pc' = "c_flush"
            /\ UNCHANGED <<fs, t, m, result, ret, faults, prog>>
       ELSE \E inj \in InjectChoices :
              IF inj
              THEN /\ faults' = faults + 1
                   /\ Fail("Io", t.rdest, "Other")
                   /\ UNCHANGED <<fs, t, m, prog>>
              ELSE /\ fs' = [fs EXCEPT ![t.rdest].c =
                                 Append(@, fs[t.src].c[t.copied + 1])]
                   /\ t' = [t EXCEPT !.copied = @ + 1]
                   /\ prog' = Append(prog, [file |-> t.src, n |-> t.copied + 1])
                   /\ m' = IF ret # << >> /\ Head(ret) = "m_next"
                           THEN [m EXCEPT !.pos = m.init_pos + t.copied + 1]
                           ELSE m
                   /\ UNCHANGED <<pc, result, ret, faults>>
    /\ UNCHANGED <<inputs, bi, sigvars, out>>

\* One turn of the loop: read a chunk at the reader's offset from the file as
\* it is now; at end of file leave the loop, else write the chunk (which may
\* fail), count it and call the progress callback.  The merge's callback sets
\* the aggregate bar to init_pos + copied (dir.rs lines 76-78).
CopyChunk ==
    /\ pc = "c_loop"
    /\ IF t.copied >= Len(fs[t.src].c)
       THEN /\ pc' = "c_flush"
            /\ UNCHANGED <<fs, t, m, result, ret, faults, prog>>
       ELSE \E inj \in InjectChoices :
              IF inj
              THEN /\ faults' = faults + 1
                   /\ Fail("Io", t.rdest, "Other")
                   /\ UNCHANGED <<fs, t, m, prog>>
              ELSE /\ fs' = [fs EXCEPT ![t.rdest].c =
                                 Append(@, fs[t.src].c[t.copied + 1])]
                   /\ t' = [t EXCEPT !.copied = @ + 1]
                   /\ prog' = Append(prog, [file |-> t.src, n |-> t.copied + 1])
                   /\ m' = IF ret # << >> /\ Head(ret) = "m_next"
                           THEN [m EXCEPT !.pos = m.init_pos + t.copied + 1]
                           ELSE m
                   /\ UNCHANGED <<pc, result, ret, faults>>
    /\ UNCHANGED <<inputs, bi, sigvars, out>>

CopyFlush ==
    /\ pc = "c_flush"
    /\ IF call.moc = "Move"
       THEN pc' = "f_rmsrc" /\ UNCHANGED <<t, result, ret>>
       ELSE t' = [t EXCEPT !.msg = "Copied"] /\ ReturnOk
    /\ UNCHANGED <<fs, inputs, bi, m, sigvars, faults, out, prog>>

FileRemoveSrc ==
    /\ pc = "f_rmsrc"
    /\ LET r == RemoveFile(fs, t.src) IN
         /\ fs' = r.fs
         /\ IF r.ok THEN t' = [t EXCEPT !.msg = "Moved"] /\ ReturnOk
            ELSE Fail("Io", t.src, r.err) /\ UNCHANGED t
    /\ UNCHANGED <<inputs, bi, m, sigvars, faults, out, prog>>

\* ------------------------------------------- lib.rs: ctrlc_flag's handler
\* (a handler that treats every signal like the first)
CtrlCSwapNoEscalation ==
    /\ pc \notin Terminal
    /\ hpc = "idle"
    /\ nsig < MaxSignals
    /\ nsig' = nsig + 1
    /\ pressed' = TRUE
    /\ hpc' = "store"
    /\ UNCHANGED <<fs, inputs, pc, ret, bi, m, t, result, ctrlc, faults, out, prog>>

\* A signal wakes the handler: a second one ends the process at once with
\* _exit(130); the first goes on to store the flag.
CtrlCSwap ==
    /\ pc \notin Terminal
    /\ hpc = "idle"
    /\ nsig < MaxSignals
    /\ nsig' = nsig + 1
    /\ IF pressed
       THEN pc' = "killed" /\ UNCHANGED <<pressed, hpc>>
       ELSE pressed' = TRUE /\ hpc' = "store" /\ UNCHANGED pc
    /\ UNCHANGED <<fs, inputs, ret, bi, m, t, result, ctrlc, faults, out, prog>>

CtrlCStore ==
    /\ pc \notin Terminal
    /\ hpc = "store"
    /\ ctrlc' = TRUE
    /\ hpc' = "idle"
    /\ UNCHANGED <<fs, inputs, pc, ret, bi, m, t, result, pressed, nsig,
                   faults, out, prog>>

\* ------------------------------------------ a single file transfer's runs
SrcA == <<"a">>

SrcB == <<"a.txt">>

DestD == <<"d">>

FileTrees == Trees({SrcA, SrcB, DestD, <<"d", "a">>, <<"d", "a.txt">>},
                   {SrcA, DestD, <<"d", "a">>})

FileDests == {P(DestD), PS(DestD), P(<<"d", "a">>), PS(<<"d", "a">>),
              P(<<"d", "a.txt">>), PS(<<"d", "a.txt">>), P(<<"d", "a.txt", "a">>), P(SrcA)}

Mounts == {Root, DestD, <<"d", "a.txt">>}

Envs(tree) == {e \in [mount : Mounts, reflinkOk : BOOLEAN] :
                  tree[e.mount].k = "dir"}

InitRest ==
    /\ fs0 = fs
    /\ ret = << >>
    /\ bi = 0
    /\ result = NoResult
    /\ ctrlc = FALSE
    /\ pressed = FALSE
    /\ hpc = "idle"
    /\ nsig = 0
    /\ faults = 0
    /\ out = << >>
    /\ prog = << >>

InitFile ==
    /\ fs \in FileTrees
    /\ env \in Envs(fs)
    /\ call \in [entry : {"move_or_copy"}, srcs : {<<SrcA>>, <<SrcB>>},
                 dest : FileDests, moc : {"Move", "Copy"}, force : BOOLEAN,
                 dry_run : {FALSE}]
    /\ pc = "f_ensure"
    /\ t = [NoT EXCEPT !.src = call.srcs[1], !.dest = call.dest]
    /\ m = NoM
    /\ InitRest

NextFile ==
    \/ FileEnsureDest
    \/ FileCreateParent
    \/ FileRename
    \/ FileRemoveDest
    \/ FileReflink
    \/ FileMetadata
    \/ CopyOpen
    \/ CopyChunk
    \/ CopyFlush
    \/ FileRemoveSrc
    \/ CtrlCSwap
    \/ CtrlCStore

SpecFile == InitFile /\ [][NextFile]_vars

\* --------------------------------------------------------------- dir.rs
\* The text of a path, as character codes ('/' is 47), and the byte-wise
\* order of such texts: the key files.sort_by_key(to_string_lossy) sorts by.
NameChars(n) ==
    CASE n = "a" -> <<97>>
      [] n = "a.txt" -> <<97, 46, 116, 120, 116>>
      [] OTHER -> <<100>>

RECURSIVE PathText(_)
PathText(p) ==
    IF p = << >> THEN << >>
    ELSE <<47>> \o NameChars(Head(p)) \o PathText(Tail(p))

RECURSIVE StrLess(_, _)
StrLess(x, y) ==
    IF y = << >> THEN FALSE
    ELSE IF x = << >> THEN TRUE
    ELSE IF Head(x) # Head(y) THEN Head(x) < Head(y)
    ELSE StrLess(Tail(x), Tail(y))

\* (a sort in descending order)
RECURSIVE InsertDescending(_, _)
InsertDescending(x, s) ==
    IF s = << >> THEN <<x>>
    ELSE IF StrLess(PathText(Head(s)), PathText(x)) THEN <<x>> \o s
    ELSE <<Head(s)>> \o InsertDescending(x, Tail(s))

RECURSIVE SortedDescending(_)
SortedDescending(files) ==
    IF files = << >> THEN << >>
    ELSE InsertDescending(files[Len(files)],
                          SortedDescending(SubSeq(files, 1, Len(files) - 1)))

\* (an insertion that compares nothing and appends)
InsertAtEnd(x, s) == Append(s, x)

\* files.sort_by_key(|p| p.to_string_lossy().to_string()): a stable sort of
\* the vector by the text of each path.
RECURSIVE InsertByKey(_, _)
InsertByKey(x, s) ==
    IF s = << >> THEN <<x>>
    ELSE IF StrLess(PathText(x), PathText(Head(s))) THEN <<x>> \o s
    ELSE <<Head(s)>> \o InsertByKey(x, Tail(s))

RECURSIVE Sorted(_)
Sorted(files) ==
    IF files = << >> THEN << >>
    ELSE InsertByKey(files[Len(files)], Sorted(SubSeq(files, 1, Len(files) - 1)))

\* The orders in which read_dir may hand out the collected files: the OS
\* gives no order, so any arrangement of them (a superset of what the
\* recursive walk can yield; the sort that follows sees each of them).
ReadDirOrders(S) ==
    {s \in [1..Cardinality(S) -> S] :
        \A i, j \in 1..Cardinality(S) : i # j => s[i] # s[j]}

\* (a collection that does not descend into subdirectories)
CollectFilesShallow(f, dir) ==
    {q \in Paths : q # Root /\ Parent(q) = dir /\ f[q].k = "file"}

\* collect_files_in_dir: every regular file below dir, at any depth.
CollectFilesInDir(f, dir) ==
    {q \in Paths : IsProperPrefix(dir, q) /\ f[q].k = "file"}

\* get_total_size_of_files
RECURSIVE TotalSize(_, _)
TotalSize(f, files) ==
    IF files = << >> THEN 0
    ELSE Len(f[Head(files)].c) + TotalSize(f, Tail(files))

\* The entries read_dir lists for a directory.
Children(f, dir) == {q \in Paths : q # Root /\ Parent(q) = dir /\ f[q].k # "none"}

\* merge_or_copy, lines 26-41: the checks on src and dest.
MergeCheck ==
    /\ pc = "m_check"
    /\ IF fs[m.src].k = "none"
       THEN Fail("SourceNotFound", m.src, "none") /\ UNCHANGED fs
       ELSE IF fs[m.src].k # "dir"
       THEN Fail("SourceNotDir", m.src, "none") /\ UNCHANGED fs
       ELSE IF Exists(fs, m.dest)
       THEN IF IsDir(fs, m.dest)
            THEN pc' = "m_collect" /\ UNCHANGED <<fs, result, ret>>
            ELSE Fail("DestNotDir", m.dest.p, "none") /\ UNCHANGED fs
       ELSE LET r == CreateDirAll(fs, m.dest.p) IN
              /\ fs' = r.fs
              /\ IF r.ok THEN pc' = "m_collect" /\ UNCHANGED <<result, ret>>
                 ELSE Fail("Io", m.dest.p, r.err)
    /\ UNCHANGED <<inputs, bi, m, t, sigvars, faults, out, prog>>

\* (a collection that keeps the order read_dir gave)
MergeCollectUnsorted ==
    /\ pc = "m_collect"
    /\ \E listed \in ReadDirOrders(CollectFilesInDir(fs, m.src)) :
         /\ m' = [m EXCEPT !.files = listed, !.k = 1,
                           !.total = TotalSize(fs, listed), !.pos = 0,
                           !.resorted = FALSE]
         /\ pc' = IF listed = << >> THEN "m_rm" ELSE "m_poll"
    /\ UNCHANGED <<fs, inputs, ret, bi, t, result, sigvars, faults, out, prog>>

\* lines 45-49: collect (in whatever order read_dir lists), sort, total size,
\* aggregate bar at 0.  resorted notes whether the sort changed the order.
MergeCollect ==
    /\ pc = "m_collect"
    /\ \E listed \in ReadDirOrders(CollectFilesInDir(fs, m.src)) :
         LET files == Sorted(listed) IN
           /\ m' = [m EXCEPT !.files = files, !.k = 1,
                             !.total = TotalSize(fs, files), !.pos = 0,
                             !.resorted = (listed # files)]
           /\ pc' = IF files = << >> THEN "m_rm" ELSE "m_poll"
    /\ UNCHANGED <<fs, inputs, ret, bi, t, result, sigvars, faults, out, prog>>

\* (a loop that reads the flag only when it enters a new top-level entry)
MergePollPerTopLevelEntry ==
    /\ pc = "m_poll"
    /\ LET file == m.files[m.k]
           rel_path == StripPrefix(m.src, file)
           dest_file == P(Join(m.dest.p, rel_path))
           newEntry == \/ m.k = 1
                       \/ Head(rel_path) # Head(StripPrefix(m.src, m.files[m.k - 1]))
       IN IF ctrlc /\ newEntry
          THEN pc' = "exit130" /\ UNCHANGED <<m, t, ret>>
          ELSE /\ m' = [m EXCEPT !.init_pos = m.pos]
               /\ t' = [NoT EXCEPT !.src = file, !.dest = dest_file]
               /\ ret' = <<"m_next">> \o ret
               /\ pc' = "f_ensure"
    /\ UNCHANGED <<fs, inputs, bi, result, sigvars, faults, out, prog>>

\* lines 52-80: one turn of the loop, up to the call of file::move_or_copy.
MergePoll ==
    /\ pc = "m_poll"
    /\ LET file == m.files[m.k]
           rel_path == StripPrefix(m.src, file)
           dest_file == P(Join(m.dest.p, rel_path))
       IN IF ctrlc
          THEN pc' = "exit130" /\ UNCHANGED <<m, t, ret>>
          ELSE /\ m' = [m EXCEPT !.init_pos = m.pos]
               /\ t' = [NoT EXCEPT !.src = file, !.dest = dest_file]
               /\ ret' = <<"m_next">> \o ret
               /\ pc' = "f_ensure"
    /\ UNCHANGED <<fs, inputs, bi, result, sigvars, faults, out, prog>>

\* (a loop that passes over every other file)
MergeNextSkipsOne ==
    /\ pc = "m_next"
    /\ m' = [m EXCEPT !.msgs = Append(@, t.msg), !.k = @ + 2]
    /\ pc' = IF m.k + 2 <= Len(m.files) THEN "m_poll" ELSE "m_rm"
    /\ UNCHANGED <<fs, inputs, ret, bi, t, result, sigvars, faults, out, prog>>

\* lines 81-82: keep the file's message; next file, or leave the loop.
MergeNext ==
    /\ pc = "m_next"
    /\ m' = [m EXCEPT !.msgs = Append(@, t.msg), !.k = @ + 1]
    /\ pc' = IF m.k + 1 <= Len(m.files) THEN "m_poll" ELSE "m_rm"
    /\ UNCHANGED <<fs, inputs, ret, bi, t, result, sigvars, faults, out, prog>>

\* lines 84-100: after the loop a move removes the emptied source tree; a
\* copy returns at once.
MergeFinish ==
    /\ pc = "m_rm"
    /\ IF call.moc = "Move"
       THEN /\ pc' = "m_rmdir"
            /\ m' = [m EXCEPT !.stack = <<m.src>>]
            /\ UNCHANGED <<result, ret>>
       ELSE /\ m' = [m EXCEPT !.msg = "Copied"]
            /\ ReturnOk
    /\ UNCHANGED <<fs, inputs, bi, t, sigvars, faults, out, prog>>

\* remove_empty_dir, one step of its recursion on the directory on top of the
\* stack: descend into an entry read_dir lists (in the order the OS gives;
\* read_dir of a regular file fails), or, with no entry left, remove the
\* directory and return to its parent's loop.
RemoveEmptyDirStep ==
    /\ pc = "m_rmdir"
    /\ LET dir == Head(m.stack) IN
         IF Children(fs, dir) # {}
         THEN \E q \in Children(fs, dir) :
                IF fs[q].k = "dir"
                THEN /\ m' = [m EXCEPT !.stack = <<q>> \o @]
                     /\ UNCHANGED <<fs, pc, result, ret>>
                ELSE Fail("Io", q, "NotADirectory") /\ UNCHANGED <<fs, m>>
         ELSE LET r == RemoveDir(fs, dir) IN
                /\ fs' = r.fs
                /\ IF ~r.ok THEN Fail("Io", dir, r.err) /\ UNCHANGED m
                   ELSE IF Tail(m.stack) # << >>
                   THEN /\ m' = [m EXCEPT !.stack = Tail(@)]
                        /\ UNCHANGED <<pc, result, ret>>
                   ELSE /\ m' = [m EXCEPT !.stack = << >>, !.msg = "Merged"]
                        /\ ReturnOk
    /\ UNCHANGED <<inputs, bi, t, sigvars, faults, out, prog>>

\* --------------------------------------------------- lib.rs: run_batch
\* (the validation with its two multi-source checks in the other order)
ValidateMixedFirst(f, srcs, dest) ==
    LET n == Len(srcs)
        isFile(i) == f[srcs[i]].k = "file"
        isDir(i) == f[srcs[i]].k = "dir"
        bad == {i \in 1..n : ~isFile(i) /\ ~isDir(i)}
        firstBad == CHOOSE i \in bad : \A j \in bad : i <= j
        all_dirs == \A i \in 1..n : ~isFile(i)
        all_files == \A i \in 1..n : isFile(i)
    IN  IF bad # {} THEN [kind |-> "InvalidSource", path |-> srcs[firstBad]]
        ELSE IF n > 1 /\ ~(all_files \/ all_dirs)
             THEN [kind |-> "MixedSources", path |-> Root]
        ELSE IF n > 1 /\ ~IsDir(f, dest)
             THEN [kind |-> "MultiDestNotDir", path |-> dest.p]
        ELSE [kind |-> "Ok", path |-> Root]

\* (the validation without its all-files-or-all-directories check)
ValidateNoMixedCheck(f, srcs, dest) ==
    LET n == Len(srcs)
        bad == {i \in 1..n : f[srcs[i]].k = "none"}
        firstBad == CHOOSE i \in bad : \A j \in bad : i <= j
    IN  IF bad # {} THEN [kind |-> "InvalidSource", path |-> srcs[firstBad]]
        ELSE IF n > 1 /\ ~IsDir(f, dest)
             THEN [kind |-> "MultiDestNotDir", path |-> dest.p]
        ELSE [kind |-> "Ok", path |-> Root]

\* (a validation that accepts whatever it is given)
ValidateNothing(f, srcs, dest) == [kind |-> "Ok", path |-> Root]

\* lines 118-142: classify every source, then the two multi-source checks.
Validate(f, srcs, dest) ==
    LET n == Len(srcs)
        isFile(i) == f[srcs[i]].k = "file"
        isDir(i) == f[srcs[i]].k = "dir"
        bad == {i \in 1..n : ~isFile(i) /\ ~isDir(i)}
        firstBad == CHOOSE i \in bad : \A j \in bad : i <= j
        all_dirs == \A i \in 1..n : ~isFile(i)
        all_files == \A i \in 1..n : isFile(i)
    IN  IF bad # {} THEN [kind |-> "InvalidSource", path |-> srcs[firstBad]]
        ELSE IF n > 1 /\ ~IsDir(f, dest)
             THEN [kind |-> "MultiDestNotDir", path |-> dest.p]
        ELSE IF n > 1 /\ ~(all_files \/ all_dirs)
             THEN [kind |-> "MixedSources", path |-> Root]
        ELSE [kind |-> "Ok", path |-> Root]

BatchValidate ==
    /\ pc = "b_validate"
    /\ LET v == Validate(fs, call.srcs, call.dest) IN
         IF v.kind # "Ok"
         THEN Fail(v.kind, v.path, "none") /\ UNCHANGED bi
         ELSE /\ pc' = IF call.dry_run THEN "b_dry" ELSE "b_loop"
              /\ bi' = 1
              /\ UNCHANGED <<result, ret>>
    /\ UNCHANGED <<fs, inputs, m, t, sigvars, faults, out, prog>>

\* (a dry run that goes on into the transfer loop)
DryRunTransfers ==
    /\ pc = "b_dry"
    /\ pc' = "b_loop"
    /\ UNCHANGED <<fs, inputs, ret, bi, m, t, result, sigvars, faults, out, prog>>

\* lines 144-154: print one line per source and return Ok.
BatchDryRun ==
    /\ pc = "b_dry"
    /\ out' = out \o [i \in 1..Len(call.srcs) |->
                        [src |-> call.srcs[i], msg |-> "Would"]]
    /\ pc' = "done"
    /\ result' = OkResult
    /\ UNCHANGED <<fs, inputs, ret, bi, m, t, sigvars, faults, prog>>

\* (a loop that starts the source without reading the flag)
BatchPollNoCheck ==
    /\ pc = "b_loop"
    /\ LET src == call.srcs[bi] IN
         IF fs[src].k = "file"
         THEN /\ t' = [NoT EXCEPT !.src = src, !.dest = call.dest]
              /\ ret' = <<"b_file_done">>
              /\ pc' = "f_ensure"
              /\ UNCHANGED m
         ELSE /\ m' = [NoM EXCEPT !.src = src, !.dest = call.dest]
              /\ ret' = <<"b_dir_done">>
              /\ pc' = "m_check"
              /\ UNCHANGED t
    /\ UNCHANGED <<fs, inputs, bi, result, sigvars, faults, out, prog>>

\* (a loop that merges a directory source into dest/<name of the source>)
BatchPollNestsDir ==
    /\ pc = "b_loop"
    /\ LET src == call.srcs[bi] IN
         IF ctrlc
         THEN pc' = "exit130" /\ UNCHANGED <<m, t, ret>>
         ELSE IF fs[src].k = "file"
         THEN /\ t' = [NoT EXCEPT !.src = src, !.dest = call.dest]
              /\ ret' = <<"b_file_done">>
              /\ pc' = "f_ensure"
              /\ UNCHANGED m
         ELSE /\ m' = [NoM EXCEPT !.src = src,
                                  !.dest = IF Len(call.dest.p) = 1
                                           THEN P(Join(call.dest.p, <<FileName(src)>>))
                                           ELSE call.dest]
              /\ ret' = <<"b_dir_done">>
              /\ pc' = "m_check"
              /\ UNCHANGED t
    /\ UNCHANGED <<fs, inputs, bi, result, sigvars, faults, out, prog>>

\* (a loop that reads the flag before its first source only)
BatchPollFirstSourceOnly ==
    /\ pc = "b_loop"
    /\ LET src == call.srcs[bi] IN
         IF ctrlc /\ bi = 1
         THEN pc' = "exit130" /\ UNCHANGED <<m, t, ret>>
         ELSE IF fs[src].k = "file"
         THEN /\ t' = [NoT EXCEPT !.src = src, !.dest = call.dest]
              /\ ret' = <<"b_file_done">>
              /\ pc' = "f_ensure"
              /\ UNCHANGED m
         ELSE /\ m' = [NoM EXCEPT !.src = src, !.dest = call.dest]
              /\ ret' = <<"b_dir_done">>
              /\ pc' = "m_check"
              /\ UNCHANGED t
    /\ UNCHANGED <<fs, inputs, bi, result, sigvars, faults, out, prog>>

\* lines 157-170: poll the flag, then hand the source to the file transfer or
\* to the merge.
BatchPoll ==
    /\ pc = "b_loop"
    /\ LET src == call.srcs[bi] IN
         IF ctrlc
         THEN pc' = "exit130" /\ UNCHANGED <<m, t, ret>>
         ELSE IF fs[src].k = "file"
         THEN /\ t' = [NoT EXCEPT !.src = src, !.dest = call.dest]
              /\ ret' = <<"b_file_done">>
              /\ pc' = "f_ensure"
              /\ UNCHANGED m
         ELSE /\ m' = [NoM EXCEPT !.src = src, !.dest = call.dest]
              /\ ret' = <<"b_dir_done">>
              /\ pc' = "m_check"
              /\ UNCHANGED t
    /\ UNCHANGED <<fs, inputs, bi, result, sigvars, faults, out, prog>>

\* (a loop that prints no summary line)
BatchNextPrintsNothing ==
    /\ pc \in {"b_file_done", "b_dir_done"}
    /\ bi' = bi + 1
    /\ IF bi + 1 <= Len(call.srcs)
       THEN pc' = "b_loop" /\ UNCHANGED result
       ELSE pc' = "done" /\ result' = OkResult
    /\ UNCHANGED <<fs, inputs, ret, m, t, sigvars, faults, out, prog>>

\* (a loop that clears the flag after each source)
BatchNextResetsFlag ==
    /\ pc \in {"b_file_done", "b_dir_done"}
    /\ out' = Append(out, [src |-> call.srcs[bi],
                           msg |-> IF pc = "b_file_done" THEN t.msg ELSE m.msg])
    /\ bi' = bi + 1
    /\ IF bi + 1 <= Len(call.srcs)
       THEN pc' = "b_loop" /\ UNCHANGED result
       ELSE pc' = "done" /\ result' = OkResult
    /\ ctrlc' = FALSE
    /\ UNCHANGED <<fs, inputs, ret, m, t, pressed, hpc, nsig, faults, prog>>

\* lines 171-174: print the source's summary; next source, or return Ok.
BatchNext ==
    /\ pc \in {"b_file_done", "b_dir_done"}
    /\ out' = Append(out, [src |-> call.srcs[bi],
                           msg |-> IF pc = "b_file_done" THEN t.msg ELSE m.msg])
    /\ bi' = bi + 1
    /\ IF bi + 1 <= Len(call.srcs)
       THEN pc' = "b_loop" /\ UNCHANGED result
       ELSE pc' = "done" /\ result' = OkResult
    /\ UNCHANGED <<fs, inputs, ret, m, t, sigvars, faults, prog>>

\* ------------------------------------------------ a directory merge's runs
MergeSrcTrees == Trees({SrcA, <<"a", "a">>, <<"a", "a.txt">>, <<"a", "a.txt", "a">>,
                        <<"a", "a.txt", "a.txt">>},
                       {SrcA, <<"a", "a.txt">>})

MergeDestTrees == Trees({DestD, <<"d", "a">>, <<"d", "a.txt">>, <<"d", "a.txt", "a">>},
                        {DestD, <<"d", "a">>, <<"d", "a.txt">>})

\* The tree with x's entries and, where x has none, y's.
Overlay(x, y) == [p \in Paths |-> IF x[p].k # "none" THEN x[p] ELSE y[p]]

MergeTrees == {Overlay(x, y) : <<x, y>> \in MergeSrcTrees \X MergeDestTrees}

MergeDests == {P(DestD), PS(DestD)}

InitMerge ==
    /\ fs \in MergeTrees
    /\ env \in Envs(fs)
    /\ call \in [entry : {"merge_or_copy"}, srcs : {<<SrcA>>}, dest : MergeDests,
                 moc : {"Move", "Copy"}, force : BOOLEAN, dry_run : {FALSE}]
    /\ pc = "m_check"
    /\ m = [NoM EXCEPT !.src = call.srcs[1], !.dest = call.dest]
    /\ t = NoT
    /\ InitRest

NextMerge ==
    \/ MergeCheck
    \/ MergeCollect
    \/ MergePoll
    \/ MergeNext
    \/ MergeFinish
    \/ RemoveEmptyDirStep
    \/ FileEnsureDest
    \/ FileCreateParent
    \/ FileRename
    \/ FileRemoveDest
    \/ FileReflink
    \/ FileMetadata
    \/ CopyOpen
    \/ CopyChunk
    \/ CopyFlush
    \/ FileRemoveSrc
    \/ CtrlCSwap
    \/ CtrlCStore

SpecMerge == InitMerge /\ [][NextMerge]_vars

\* ------------------------------- merges of trees with prefix-related names
\* Source trees in which the directory a/a can stand next to the file
\* a/a.txt, merged into a destination that is empty or holds a.txt.
OrderSrcTrees == Trees({<<"a", "a", "a">>, <<"a", "a", "d">>, <<"a", "a.txt">>,
                        <<"a", "d">>},
                       {SrcA, <<"a", "a">>})

OrderDestTrees == Trees({<<"d", "a.txt">>}, {DestD})

OrderTrees == {Overlay(x, y) : <<x, y>> \in OrderSrcTrees \X OrderDestTrees}

InitOrder ==
    /\ fs \in OrderTrees
    /\ env \in Envs(fs)
    /\ call \in [entry : {"merge_or_copy"}, srcs : {<<SrcA>>}, dest : MergeDests,
                 moc : {"Move", "Copy"}, force : BOOLEAN, dry_run : {FALSE}]
    /\ pc = "m_check"
    /\ m = [NoM EXCEPT !.src = call.srcs[1], !.dest = call.dest]
    /\ t = NoT
    /\ InitRest

SpecOrder == InitOrder /\ [][NextMerge]_vars

\* ------------------- merges into the source directory itself or below it
\* merge_or_copy compares neither path with the other (dir.rs 26-41), so the
\* destination may be the source directory or a directory inside it.
SelfTrees == Trees({<<"a", "a">>, <<"a", "d">>, <<"a", "a.txt", "a">>},
                   {SrcA, <<"a", "a.txt">>})

SelfDests == {P(SrcA), P(<<"a", "a.txt">>)}

SelfEnvs(tree) == {e \in [mount : {Root, <<"a", "a.txt">>}, reflinkOk : BOOLEAN] :
                      tree[e.mount].k = "dir"}

InitSelf ==
    /\ fs \in SelfTrees
    /\ env \in SelfEnvs(fs)
    /\ call \in [entry : {"merge_or_copy"}, srcs : {<<SrcA>>}, dest : SelfDests,
                 moc : {"Move", "Copy"}, force : BOOLEAN, dry_run : {FALSE}]
    /\ \A q \in Paths :
          (fs[q].k = "file" /\ IsProperPrefix(SrcA, q)) =>
              Len(call.dest.p) + Len(q) - 1 <= MaxDepth
    /\ pc = "m_check"
    /\ m = [NoM EXCEPT !.src = call.srcs[1], !.dest = call.dest]
    /\ t = NoT
    /\ InitRest

SpecSelf == InitSelf /\ [][NextMerge]_vars

\* ------------------------- transfers and merges of paths of either kind
\* Both entry points on the same trees: a and d may each be a regular file
\* or a directory, and d/a may be a directory where a file would go.
KindTrees == Trees({SrcA, <<"a", "a">>, DestD, <<"d", "a">>},
                   {SrcA, DestD, <<"d", "a">>})

KindDests == {P(DestD), PS(DestD), P(<<"d", "a">>)}

InitKinds ==
    /\ fs \in KindTrees
    /\ env \in [mount : {Root, DestD}, reflinkOk : BOOLEAN]
    /\ fs[env.mount].k = "dir"
    /\ call \in [entry : {"move_or_copy", "merge_or_copy"}, srcs : {<<SrcA>>},
                 dest : KindDests, moc : {"Move", "Copy"}, force : BOOLEAN,
                 dry_run : {FALSE}]
    /\ IF call.entry = "move_or_copy"
       THEN /\ pc = "f_ensure"
            /\ t = [NoT EXCEPT !.src = call.srcs[1], !.dest = call.dest]
            /\ m = NoM
       ELSE /\ pc = "m_check"
            /\ m = [NoM EXCEPT !.src = call.srcs[1], !.dest = call.dest]
            /\ t = NoT
    /\ InitRest

SpecKinds == InitKinds /\ [][NextMerge]_vars

\* ------------------------------------------------------ run_batch's runs
BatchTrees == Trees({SrcA, SrcB, <<"a", "a">>, <<"a.txt", "a">>, DestD, <<"d", "a">>},
                    {SrcA, SrcB, DestD})

BatchSrcs == {<<SrcA>>, <<SrcA, SrcB>>, <<SrcB, SrcA>>, <<SrcA, SrcA>>}

BatchDests == {P(DestD), PS(DestD), P(<<"d", "a.txt">>)}

Init ==
    /\ fs \in BatchTrees
    /\ env \in Envs(fs)
    /\ call \in [entry : {"run_batch"}, srcs : BatchSrcs, dest : BatchDests,
                 moc : {"Move", "Copy"}, force : BOOLEAN, dry_run : BOOLEAN]
    /\ pc = "b_validate"
    /\ t = NoT
    /\ m = NoM
    /\ InitRest

Next ==
    \/ BatchValidate
    \/ BatchDryRun
    \/ BatchPoll
    \/ BatchNext
    \/ MergeCheck
    \/ MergeCollect
    \/ MergePoll
    \/ MergeNext
    \/ MergeFinish
    \/ RemoveEmptyDirStep
    \/ FileEnsureDest
    \/ FileCreateParent
    \/ FileRename
    \/ FileRemoveDest
    \/ FileReflink
    \/ FileMetadata
    \/ CopyOpen
    \/ CopyChunk
    \/ CopyFlush
    \/ FileRemoveSrc
    \/ CtrlCSwap
    \/ CtrlCStore

Spec == Init /\ [][Next]_vars

\* ------------------------------ batches whose sources meet at one path
\* Two files of the same name in different directories, or the two
\* directories that hold them, sent to the same destination directory.
CollideTrees == Trees({<<"a", "a">>, <<"a.txt", "a">>, <<"d", "a">>},
                      {SrcA, SrcB, DestD})

CollideSrcs == {<<<<"a", "a">>, <<"a.txt", "a">>>>, <<<<"a.txt", "a">>, <<"a", "a">>>>,
                <<SrcA, SrcB>>, <<SrcB, SrcA>>}

InitCollide ==
    /\ fs \in CollideTrees
    /\ env \in [mount : {Root, DestD}, reflinkOk : BOOLEAN]
    /\ fs[env.mount].k = "dir"
    /\ call \in [entry : {"run_batch"}, srcs : CollideSrcs,
                 dest : {P(DestD), PS(DestD)}, moc : {"Move", "Copy"},
                 force : BOOLEAN, dry_run : BOOLEAN]
    /\ pc = "b_validate"
    /\ t = NoT
    /\ m = NoM
    /\ InitRest

SpecCollide == InitCollide /\ [][Next]_vars

\* --------------------- batches into a destination that holds directories
\* The source a is a file or a directory with the files a and d; the
\* destination may hold files at d/a, d/d and d/a.txt, or a directory d/a
\* with a file a in it.
NestTrees == Trees({SrcA, <<"a", "a">>, <<"a", "d">>, <<"d", "a">>, <<"d", "a", "a">>,
                    <<"d", "d">>, <<"d", "a.txt">>},
                   {SrcA, DestD, <<"d", "a">>})

InitNest ==
    /\ fs \in NestTrees
    /\ env \in [mount : {Root, DestD}, reflinkOk : BOOLEAN]
    /\ fs[env.mount].k = "dir"
    /\ call \in [entry : {"run_batch"}, srcs : {<<SrcA>>},
                 dest : {P(DestD), PS(DestD)}, moc : {"Move", "Copy"},
                 force : BOOLEAN, dry_run : BOOLEAN]
    /\ pc = "b_validate"
    /\ t = NoT
    /\ m = NoM
    /\ InitRest

SpecNest == InitNest /\ [][Next]_vars

\* --------------------------------------- run_batch with a main thread that runs
\* The steps of the main thread (everything but the signal handler's).
MainNext ==
    \/ BatchValidate
    \/ BatchDryRun
    \/ BatchPoll
    \/ BatchNext
    \/ MergeCheck
    \/ MergeCollect
    \/ MergePoll
    \/ MergeNext
    \/ MergeFinish
    \/ RemoveEmptyDirStep
    \/ FileEnsureDest
    \/ FileCreateParent
    \/ FileRename
    \/ FileRemoveDest
    \/ FileReflink
    \/ FileMetadata
    \/ CopyOpen
    \/ CopyChunk
    \/ CopyFlush
    \/ FileRemoveSrc

\* The main thread is never stopped for good while it has a step to take
\* (the handler runs on a thread of its own, lib.rs 180-196).
SpecLive == Spec /\ WF_vars(MainNext)

\* ================================================================ claims
\* The source of a single-source call, and the destination the resolution
\* rule gives it in the tree the call started from.
Src == call.srcs[1]

Resolved(f, s, d) ==
    IF IsDir(f, d) \/ (~Exists(f, d) /\ d.slash)
    THEN Join(d.p, <<FileName(s)>>)
    ELSE d.p

R0 == Resolved(fs0, Src, call.dest)

Returned(kind) == pc = "done" /\ result.kind = kind

\* C1: a successful move of a regular file f with content C to a destination
\* that did not exist ends with f gone and the resolved destination a regular
\* file holding exactly C, by rename or by copy-and-delete.
C1_Pre ==
    /\ call.entry = "move_or_copy"
    /\ call.moc = "Move"
    /\ fs0[Src].k = "file"
    /\ ~Exists(fs0, call.dest)

C1_MoveToNewDest ==
    (C1_Pre /\ Returned("Ok")) =>
        /\ fs[Src].k = "none"
        /\ fs[R0] = FileN(fs0[Src].c)

C1_Witness == C1_Pre /\ Returned("Ok") /\ t.msg = "Moved" /\ fs0[Src].c # << >>

\* C2: after a successful copy of a regular file f, f and the resolved
\* destination both exist as regular files with identical content and f holds
\* what it held before the call, by reflink or by buffered copy.
C2_Pre ==
    /\ call.entry = "move_or_copy"
    /\ call.moc = "Copy"
    /\ fs0[Src].k = "file"

C2_CopyKeepsSource ==
    (C2_Pre /\ Returned("Ok")) =>
        /\ fs[Src] = fs0[Src]
        /\ fs[R0].k = "file"
        /\ fs[R0].c = fs[Src].c

C2_Witness == C2_Pre /\ Returned("Ok") /\ t.msg = "Copied" /\ fs0[Src].c # << >>

\* C3: when the resolved destination is an existing regular file and force is
\* off, a move or copy of a regular file changes nothing (the destination and
\* the source keep their content) and returns the 'already exists (use -f to
\* overwrite)' error for that destination.
C3_Pre ==
    /\ call.entry = "move_or_copy"
    /\ ~call.force
    /\ fs0[Src].k = "file"
    /\ fs0[R0].k = "file"

C4_Pre ==
    /\ call.entry = "move_or_copy"
    /\ call.force
    /\ fs0[Src].k = "file"
    /\ fs0[R0].k = "file"
    /\ fs0[R0].c # fs0[Src].c

C4_ConflictWithForce ==
    C4_Pre =>
        /\ Returned("Ok") =>
              /\ fs[R0] = FileN(fs0[Src].c)
              /\ call.moc = "Move" => fs[Src].k = "none"
              /\ call.moc = "Copy" => fs[Src] = fs0[Src]
        /\ (pc = "done" /\ faults = 0) => result.kind = "Ok"

C4_Witness == C4_Pre /\ Returned("Ok") /\ t.msg = "Moved" /\ fs0[R0].c # << >>

\* --- run_batch
NSrcs == Len(call.srcs)

SrcIsFile(i) == fs0[call.srcs[i]].k = "file"

SrcIsDir(i) == fs0[call.srcs[i]].k = "dir"

AllSrcsValid == \A i \in 1..NSrcs : SrcIsFile(i) \/ SrcIsDir(i)

Mixed == (\E i \in 1..NSrcs : SrcIsFile(i)) /\ (\E i \in 1..NSrcs : SrcIsDir(i))

ValidBatch ==
    /\ AllSrcsValid
    /\ NSrcs > 1 => (IsDir(fs0, call.dest) /\ ~Mixed)

ValidationErrors == {"InvalidSource", "MultiDestNotDir", "MixedSources"}

\* C5: a dry run of a batch that passes validation changes no path (the
\* filesystem stays exactly as it was), returns Ok, and never takes the
\* cancellation exit, in either mode and for either value of force.
C5_Pre == call.entry = "run_batch" /\ call.dry_run /\ ValidBatch

C5_DryRunNoOp ==
    C5_Pre =>
        /\ fs = fs0
        /\ pc = "done" => result.kind = "Ok"
        /\ pc # "exit130"

C5_Witness ==
    /\ C5_Pre /\ Returned("Ok") /\ NSrcs > 1 /\ call.force
    /\ Len(out) = NSrcs

\* C6: a batch that fails validation (a source that is neither file nor
\* directory, several sources with a destination that is no existing
\* directory, or several sources mixing files and directories) returns one of
\* the three validation errors and has changed nothing on the way, also when
\* only the last source is the offending one.
C6_Pre == call.entry = "run_batch" /\ ~ValidBatch

C6_ValidationBeforeMutation ==
    /\ C6_Pre => (fs = fs0 /\ (pc = "done" => result.kind \in ValidationErrors))
    /\ (call.entry = "run_batch" /\ pc = "done"
           /\ result.kind \in ValidationErrors) => fs = fs0

C6_Witness ==
    /\ C6_Pre /\ Returned("InvalidSource")
    /\ NSrcs = 2 /\ SrcIsFile(1) /\ result.path = call.srcs[2]
    /\ IsDir(fs0, call.dest)

\* C7: a batch of two or more sources, each an existing file or directory,
\* whose destination is not an existing directory (a regular file, or
\* nothing) fails with the 'destination must be a directory' error and
\* touches nothing.
C7_Pre ==
    /\ call.entry = "run_batch"
    /\ NSrcs >= 2
    /\ AllSrcsValid
    /\ ~IsDir(fs0, call.dest)

C7_MultipleSourcesNeedDirDest ==
    C7_Pre =>
        /\ fs = fs0
        /\ pc = "done" => result.kind = "MultiDestNotDir"

C7_Witness ==
    /\ C7_Pre /\ Returned("MultiDestNotDir")
    /\ fs0[call.dest.p].k = "file" /\ ~call.dry_run

\* C8 as stated: a batch of one file source and one directory source fails
\* with the MixedSourceKinds error whatever the destination is.
C8_Pre ==
    /\ call.entry = "run_batch"
    /\ NSrcs = 2
    /\ AllSrcsValid
    /\ Mixed

C8_Original == (C8_Pre /\ pc = "done") => result.kind = "MixedSources"

\* C8 (amended): a batch of one file source and one directory source fails
\* whatever the destination is and touches nothing; the error is
\* MixedSourceKinds when the destination is an existing directory, and the
\* 'destination must be a directory' error when it is not.
C8_MixedSourcesFail ==
    C8_Pre =>
        /\ fs = fs0
        /\ pc = "done" =>
              result.kind = (IF IsDir(fs0, call.dest) THEN "MixedSources"
                             ELSE "MultiDestNotDir")

C8_Witness == C8_Pre /\ Returned("MixedSources") /\ ~call.dry_run

\* --- merge_or_copy
MSrc == call.srcs[1]

MDst == call.dest.p

\* The relative paths below the source directory, in the starting tree.
Rels == {StripPrefix(MSrc, q) : q \in {x \in Paths : IsProperPrefix(MSrc, x)}}

SrcFileRels == {r \in Rels : fs0[Join(MSrc, r)].k = "file"}

\* Relative paths at which both trees hold a regular file.
Overlap == {r \in SrcFileRels : fs0[Join(MDst, r)].k = "file"}

\* Relative paths at which one tree holds a regular file and the other one
\* a directory.
KindClash ==
    {r \in Rels : \/ fs0[Join(MSrc, r)].k = "file" /\ fs0[Join(MDst, r)].k = "dir"
                  \/ fs0[Join(MSrc, r)].k = "dir" /\ fs0[Join(MDst, r)].k = "file"}

\* C9: a move-mode merge with force off of a source tree into a destination
\* tree that shares no file path with it (no path that is a regular file in
\* one tree exists in the other) returns Ok unless an I/O error was
\* injected; then every source file is in the destination at its relative
\* path with its content, everything the destination held is still there
\* unchanged, and the source directory is gone.
C9_Pre ==
    /\ call.entry = "merge_or_copy"
    /\ call.moc = "Move"
    /\ ~call.force
    /\ fs0[MSrc].k = "dir"
    /\ IsDir(fs0, call.dest)
    /\ Overlap = {}
    /\ KindClash = {}

C9_MergeWithoutOverlap ==
    C9_Pre =>
        /\ (pc = "done" /\ faults = 0) => result.kind = "Ok"
        /\ Returned("Ok") =>
              /\ \A r \in SrcFileRels : fs[Join(MDst, r)] = fs0[Join(MSrc, r)]
              /\ \A p \in Paths :
                    (IsPrefix(MDst, p) /\ fs0[p].k # "none") => fs[p] = fs0[p]
              /\ \A p \in Paths : IsPrefix(MSrc, p) => fs[p].k = "none"

C9_Witness ==
    /\ C9_Pre /\ Returned("Ok")
    /\ Cardinality(SrcFileRels) >= 2
    /\ \E r \in SrcFileRels : Len(r) = 2 /\ fs0[Join(MDst, SubSeq(r, 1, 1))].k = "dir"
    /\ \E p \in Paths : IsProperPrefix(MDst, p) /\ fs0[p].k = "file"

\* C10: when both trees hold a regular file at the same relative path and
\* force is off, the merge never returns Ok; every such destination file
\* keeps its content, every such source file stays where it was, and the
\* source directory is not removed; and the error returned - when no I/O
\* error was injected and no file meets a directory - is the 'already exists'
\* error naming the destination path of the first such file in sorted order.
C10_Pre ==
    /\ call.entry = "merge_or_copy"
    /\ ~call.force
    /\ fs0[MSrc].k = "dir"
    /\ IsDir(fs0, call.dest)
    /\ Overlap # {}

FirstOverlap ==
    CHOOSE r \in Overlap :
        \A q \in Overlap \ {r} :
            StrLess(PathText(Join(MSrc, r)), PathText(Join(MSrc, q)))

C11_Pre ==
    /\ call.entry = "merge_or_copy"
    /\ call.force
    /\ fs0[MSrc].k = "dir"
    /\ IsDir(fs0, call.dest)
    /\ Overlap # {}
    /\ KindClash = {}

C11_MergeWithForce ==
    C11_Pre =>
        /\ (pc = "done" /\ faults = 0) => result.kind = "Ok"
        /\ Returned("Ok") =>
              /\ \A r \in SrcFileRels : fs[Join(MDst, r)] = fs0[Join(MSrc, r)]
              /\ \A p \in Paths :
                    (/\ IsProperPrefix(MDst, p)
                     /\ fs0[p].k = "file"
                     /\ StripPrefix(MDst, p) \notin SrcFileRels) => fs[p] = fs0[p]
              /\ \A r \in SrcFileRels :
                    IF call.moc = "Move" THEN fs[Join(MSrc, r)].k = "none"
                    ELSE fs[Join(MSrc, r)] = fs0[Join(MSrc, r)]

C11_Witness ==
    /\ C11_Pre /\ Returned("Ok") /\ call.moc = "Copy"
    /\ \E r \in Overlap : fs0[Join(MDst, r)].c # fs0[Join(MSrc, r)].c
    /\ \E p \in Paths : /\ IsProperPrefix(MDst, p) /\ fs0[p].k = "file"
                         /\ StripPrefix(MDst, p) \notin SrcFileRels

\* --- destination resolution
EnsureErrors == {"SourceNotFound", "SourceNotFile", "NoFileName", "DestNotFile",
                 "DestExists"}

\* The transfer is past ensure_dest: at one of its later steps, or returned
\* with something else than one of ensure_dest's errors.
PastEnsure ==
    \/ pc \in {"f_mkparent", "f_rename", "f_rmdest", "f_reflink", "f_meta",
               "c_open", "c_loop", "c_flush", "f_rmsrc"}
    \/ pc = "done" /\ result.kind \notin EnsureErrors

\* The claim's two joining cases, on the tree the call started from.
JoinCase ==
    \/ fs0[call.dest.p].k = "dir"
    \/ ~Exists(fs0, call.dest) /\ call.dest.slash

\* C12: for a regular-file source, the path the transfer works on is dest
\* joined with the source's file name when dest is an existing directory or
\* does not exist and ends in a separator, and dest itself in every other
\* case; a transfer that returns Ok has put the file's content at exactly
\* that path, and in the joining case dest and all its ancestors are then
\* directories.
C12_Pre == call.entry = "move_or_copy" /\ fs0[Src].k = "file"

C12_DestinationResolution ==
    C12_Pre =>
        /\ PastEnsure =>
              t.rdest = (IF JoinCase THEN Join(call.dest.p, <<FileName(Src)>>)
                         ELSE call.dest.p)
        /\ Returned("Ok") =>
              /\ fs[t.rdest] = FileN(fs0[Src].c)
              /\ JoinCase =>
                    \A q \in Paths : IsPrefix(q, call.dest.p) => fs[q].k = "dir"
              /\ ~JoinCase => fs[call.dest.p] = FileN(fs0[Src].c)

C12_Witness ==
    /\ C12_Pre /\ Returned("Ok")
    /\ call.dest.slash
    /\ fs0[call.dest.p].k = "none"
    /\ fs0[Parent(call.dest.p)].k = "none"
    /\ fs[Join(call.dest.p, <<FileName(Src)>>)] = FileN(fs0[Src].c)

\* --- cancellation
\* The main thread's own step out of the head of the batch loop (the other
\* way out is the handler's _exit on a second signal).
LeavesBatchLoop == pc = "b_loop" /\ pc' # "b_loop" /\ pc' # "killed"

\* C13: run_batch reads the flag at the head of the loop, before each
\* source: with the flag set it takes the 130 exit and starts neither that
\* source nor a later one (nothing changes at the exit or after it), with the
\* flag clear it starts the source; and a run that took the 130 exit, from
\* the batch loop or from the merge loop, had the flag set and never returns
\* Ok or Err.
C13_BatchCancellation ==
    /\ [][/\ LeavesBatchLoop =>
              IF ctrlc
              THEN pc' = "exit130" /\ UNCHANGED <<fs, bi, m, t, ret, result, out>>
              ELSE pc' \in {"f_ensure", "m_check"}
          /\ pc = "exit130" => UNCHANGED vars]_vars
    /\ [](pc = "exit130" => (ctrlc /\ result = NoResult))

C13_Witness ==
    /\ call.entry = "run_batch"
    /\ pc = "exit130"
    /\ ret = << >>
    /\ bi = 2
    /\ fs # fs0
    /\ fs[call.srcs[2]] = fs0[call.srcs[2]]

\* --- the batch as a whole
\* The regular files source i of the batch stands for, the path each one is
\* to end at, and the content that path is to hold when several sources of
\* the batch end at it (the last one written wins).
SrcFilesOf(i) ==
    IF SrcIsFile(i) THEN {call.srcs[i]}
    ELSE {q \in Paths : IsProperPrefix(call.srcs[i], q) /\ fs0[q].k = "file"}

Transfers == {x \in (1..NSrcs) \X Paths : x[2] \in SrcFilesOf(x[1])}

DestPathOf(x) ==
    IF SrcIsFile(x[1]) THEN Resolved(fs0, x[2], call.dest)
    ELSE Join(call.dest.p, StripPrefix(call.srcs[x[1]], x[2]))

FinalContent(p) ==
    LET w == {x \in Transfers : DestPathOf(x) = p}
        last == CHOOSE x \in w : \A y \in w : y[1] <= x[1]
    IN  fs0[last[2]].c

SuccessMsgs == {"Renamed", "Reflinked", "Moved", "Copied", "Merged"}

\* C14: when run_batch (not a dry run) returns Ok, every regular file of
\* every source is at its destination path with its content (or the content
\* of a later source of the batch that ends at the same path), in Move mode
\* none of them is left at the source, every source reported a completed
\* transfer and no I/O error occurred; and a run that took the 130 exit or
\* got an error from a transfer never turns into an Ok return.
C14_Pre == call.entry = "run_batch" /\ ~call.dry_run

C14_SuccessMeansComplete ==
    /\ []((C14_Pre /\ Returned("Ok")) =>
             /\ \A x \in Transfers :
                   /\ fs[DestPathOf(x)] = FileN(FinalContent(DestPathOf(x)))
                   /\ call.moc = "Move" => fs[x[2]].k = "none"
             /\ Len(out) = NSrcs
             /\ \A i \in 1..NSrcs : out[i].msg \in SuccessMsgs
             /\ faults = 0)
    /\ [][(pc = "exit130" \/ (pc = "done" /\ result.kind # "Ok")) =>
              (pc' = pc /\ result' = result)]_vars

C14_Witness ==
    /\ C14_Pre /\ Returned("Ok") /\ call.moc = "Move"
    /\ NSrcs = 2
    /\ SrcIsDir(1)
    /\ \A i \in 1..NSrcs : SrcFilesOf(i) # {}
    /\ ctrlc

\* --- the signal handler
SignalStep == nsig' = nsig + 1

MainUntouched == UNCHANGED <<fs, pc, ret, bi, m, t, result, out, prog, faults>>

\* C15: the first signal only marks the handler as pressed and goes on to
\* store the flag, leaving the main thread where it is; every later signal
\* ends the process at once (the 130 _exit) wherever the main thread is,
\* changing neither the flag nor the filesystem; nothing runs after that
\* exit, so whatever a copy had written so far stays as it is; the flag is
\* changed only by the handler's store, to true.
C15_SecondSignalEscalation ==
    /\ [][/\ (SignalStep /\ ~pressed) =>
               (pressed' /\ hpc' = "store" /\ ctrlc' = ctrlc /\ MainUntouched)
          /\ (SignalStep /\ pressed) =>
               /\ pc' = "killed"
               /\ UNCHANGED <<fs, ret, bi, m, t, result, out, prog, faults>>
               /\ UNCHANGED <<ctrlc, pressed, hpc>>
          /\ pc = "killed" => UNCHANGED vars
          /\ ctrlc' # ctrlc => (hpc = "store" /\ ctrlc' /\ MainUntouched)]_vars
    /\ []((pressed /\ hpc = "idle" /\ nsig < MaxSignals /\ pc \notin Terminal)
             => ENABLED (SignalStep /\ CtrlCSwap))
    /\ [](pc = "killed" => (nsig >= 2 /\ result = NoResult))

C15_Witness ==
    /\ pc = "killed"
    /\ call.entry = "move_or_copy"
    /\ t.copied = 1
    /\ Len(fs[t.src].c) = 2
    /\ Len(fs[t.rdest].c) = 1
    /\ fs[t.src] = fs0[t.src]

\* C16: the flag is false until a signal has been delivered; it changes only
\* in the handler's store, from false to true; the handler stores at most
\* once (only while the flag is still false); and no step of run_batch, the
\* merge, the file transfer or the handler takes it back to false.
C16_FlagMonotonic ==
    /\ [](nsig = 0 => ~ctrlc)
    /\ [][/\ ctrlc => ctrlc'
          /\ ctrlc' # ctrlc => (hpc = "store" /\ hpc' = "idle")
          /\ (hpc = "store" /\ hpc' = "idle") => (~ctrlc /\ ctrlc')]_vars

C16_Witness ==
    /\ call.entry = "run_batch"
    /\ ctrlc
    /\ nsig = 1
    /\ pc = "c_loop"
    /\ ret = <<"m_next", "b_dir_done">>
    /\ bi = 2

\* --- the strategy ladder
\* The main thread's own step from the native primitive, and what the
\* primitive returned in that step.
PrimitiveStep == pc \in {"f_rename", "f_reflink"} /\ pc' # pc /\ pc' # "killed"

PrimitiveResult ==
    IF faults' # faults THEN ErrR("Other", fs)
    ELSE IF pc = "f_rename" THEN Rename(fs, env.mount, t.src, t.rdest)
    ELSE Reflink(fs, env.mount, env.reflinkOk, t.src, t.rdest)

FallbackErrors == {"CrossesDevices", "Unsupported"}

CopySteps == {"f_meta", "c_open", "c_loop", "c_flush", "f_rmsrc"}

\* C17: the buffered copy is entered only from the native primitive (rename
\* in Move mode, reflink in Copy mode); a primitive that succeeds makes the
\* transfer return at once with the Renamed / Reflinked message; a
\* cross-device or not-supported failure leads to the buffered copy and
\* returns nothing; any other failure is returned at once as that error with
\* no copy started; and no transfer ever returns a cross-device or
\* not-supported error.
C17_StrategyLadder ==
    /\ [][/\ PrimitiveStep =>
               /\ pc = (IF call.moc = "Move" THEN "f_rename" ELSE "f_reflink")
               /\ IF PrimitiveResult.ok
                  THEN /\ pc' = "done" /\ result' = OkResult
                       /\ t'.msg = (IF call.moc = "Move" THEN "Renamed"
                                    ELSE "Reflinked")
                       /\ t'.copied = 0 /\ prog' = << >>
                  ELSE IF PrimitiveResult.err \in FallbackErrors
                  THEN pc' = "f_meta" /\ result' = NoResult
                  ELSE /\ pc' = "done"
                       /\ result'.kind = "Io"
                       /\ result'.err = PrimitiveResult.err
                       /\ fs' = fs
          /\ (pc' \in CopySteps /\ pc \notin CopySteps) => PrimitiveStep]_vars
    /\ [](result.err \notin FallbackErrors)

C17_Witness ==
    /\ call.entry = "move_or_copy"
    /\ Returned("Ok")
    /\ call.moc = "Copy"
    /\ t.msg = "Copied"
    /\ ~env.reflinkOk /\ env.mount = Root
    /\ Len(prog) = 2

\* --- a merge that fails partway
\* Where the merge puts the source file at relative path r: at r below the
\* destination, or inside the directory the destination already had there.
MergeDestOf(r) ==
    IF fs0[Join(MDst, r)].k = "dir" THEN Join(MDst, r \o <<r[Len(r)]>>)
    ELSE Join(MDst, r)

\* The merge returned an error while at the k-th file of its order (k past
\* the last file: while removing the emptied source tree).
MergeFailedAt(k) ==
    /\ call.entry = "merge_or_copy"
    /\ pc = "done" /\ result.kind # "Ok"
    /\ m.files # << >>
    /\ m.k = k

\* C18: when a merge returns an error at the k-th file of its processing
\* order, each of the first k-1 files is still where its transfer put it in
\* the destination, with its content, and in Move mode is no longer in the
\* source; the k-th and every later file is at the source exactly as before
\* the call; once the error is returned nothing changes any more.
C18_NoRollback ==
    /\ [](\A k \in 1..(Cardinality(SrcFileRels) + 1) :
            MergeFailedAt(k) =>
              /\ \A i \in 1..(k - 1) :
                    LET file == m.files[i]
                        r == StripPrefix(MSrc, file)
                    IN /\ fs[MergeDestOf(r)] = FileN(fs0[file].c)
                       /\ IF call.moc = "Move" THEN fs[file].k = "none"
                          ELSE fs[file] = fs0[file]
              /\ \A i \in k..Len(m.files) : fs[m.files[i]] = fs0[m.files[i]])
    /\ [][(pc = "done" /\ result.kind # "Ok") => UNCHANGED vars]_vars

C18_Witness ==
    /\ MergeFailedAt(2)
    /\ call.moc = "Move"
    /\ result.kind = "DestExists"
    /\ Len(m.files) = 3
    /\ m.msgs = <<"Moved">>

\* --- empty source subdirectories
\* Relative paths of the source's subdirectories that hold no regular file at
\* any depth.
EmptySubdirRels ==
    {r \in Rels : /\ fs0[Join(MSrc, r)].k = "dir"
                  /\ ~\E q \in Paths : /\ IsProperPrefix(Join(MSrc, r), q)
                                        /\ fs0[q].k = "file"}

C19_Pre ==
    /\ call.entry = "merge_or_copy"
    /\ fs0[MSrc].k = "dir"
    /\ KindClash = {}
    /\ EmptySubdirRels # {}

\* C19: after a merge that returned Ok, every source subdirectory without
\* any regular file below it is a directory at the same relative path in the
\* destination; in Copy mode it is still in the source, in Move mode it is
\* gone from the source.
C19_EmptySubdirsCreated ==
    (C19_Pre /\ Returned("Ok")) =>
        \A r \in EmptySubdirRels :
            /\ fs[Join(MDst, r)].k = "dir"
            /\ IF call.moc = "Copy" THEN fs[Join(MSrc, r)].k = "dir"
               ELSE fs[Join(MSrc, r)].k = "none"

\* What the merge does with them: the source side is as the claim says, and
\* the destination has a directory there only if it had one before the call.
C19_Observed ==
    (C19_Pre /\ Returned("Ok")) =>
        \A r \in EmptySubdirRels :
            /\ fs[Join(MDst, r)] = fs0[Join(MDst, r)]
            /\ IF call.moc = "Copy" THEN fs[Join(MSrc, r)].k = "dir"
               ELSE fs[Join(MSrc, r)].k = "none"

C19_Witness ==
    /\ C19_Pre /\ Returned("Ok") /\ call.moc = "Move"
    /\ \E r \in EmptySubdirRels : fs0[Join(MDst, r)].k = "none"
    /\ SrcFileRels # {}

\* --- directory sources of a batch
AllSrcsDirs == \A i \in 1..NSrcs : SrcIsDir(i)

\* The path a file of directory source i would have below dest/<name of the
\* source>.
NestedPathOf(x) ==
    Join(call.dest.p,
         <<FileName(call.srcs[x[1]])>> \o StripPrefix(call.srcs[x[1]], x[2]))

\* C20: when a batch of one or several directory sources returns Ok, every
\* regular file S/r of every source S is a regular file at D/r (with its
\* content, or that of a later source's file with the same r), and the path
\* D/<name of S>/r is as it was before the call; all sources go into the
\* same D.  (For destinations that hold no directory at any such D/r.)
C20_Pre ==
    /\ call.entry = "run_batch"
    /\ ~call.dry_run
    /\ AllSrcsDirs
    /\ \A x \in Transfers : fs0[DestPathOf(x)].k # "dir"

C20_DirsMergeIntoDest ==
    (C20_Pre /\ Returned("Ok")) =>
        \A x \in Transfers :
            /\ DestPathOf(x) = Join(call.dest.p, StripPrefix(call.srcs[x[1]], x[2]))
            /\ fs[DestPathOf(x)].k = "file"
            /\ fs[DestPathOf(x)].c = FinalContent(DestPathOf(x))
            /\ NestedPathOf(x) \in Paths =>
                  fs[NestedPathOf(x)] = fs0[NestedPathOf(x)]

C20_Witness ==
    /\ C20_Pre /\ Returned("Ok") /\ call.moc = "Copy"
    /\ NSrcs = 2
    /\ call.srcs[1] # call.srcs[2]
    /\ \A i \in 1..NSrcs : SrcFilesOf(i) # {}
    /\ fs[Join(call.dest.p, <<"a">>)].c = fs0[Join(call.srcs[2], <<"a">>)].c
    /\ fs[Join(call.dest.p, <<"a", "a">>)].k = "none"

\* --- a move keeps the content
\* C21: in Move mode, in every state of a single-file transfer (while it
\* runs, after an error return, after the process was killed in the middle
\* of the fallback copy) the source's original content is whole at the
\* source path or whole at the resolved destination; and the source file
\* disappears only in a successful rename, or in the removal that follows a
\* fallback copy which wrote every chunk.
C21_Pre ==
    /\ call.entry = "move_or_copy"
    /\ call.moc = "Move"
    /\ fs0[Src].k = "file"

C21_MoveKeepsContent ==
    /\ [](C21_Pre =>
            \/ fs[Src] = fs0[Src]
            \/ fs[t.rdest] = FileN(fs0[Src].c))
    /\ [][(C21_Pre /\ fs[Src].k = "file" /\ fs'[Src].k # "file") =>
              \/ /\ pc = "f_rename"
                 /\ faults' = faults
                 /\ Rename(fs, env.mount, t.src, t.rdest).ok
                 /\ fs'[t.rdest] = fs[Src]
              \/ /\ pc = "f_rmsrc"
                 /\ t.copied = Len(fs[Src].c)
                 /\ fs[t.rdest] = fs[Src]]_vars

C21_Witness ==
    /\ C21_Pre
    /\ pc = "done" /\ result.kind = "Io" /\ result.err = "Other"
    /\ t.copied = 1
    /\ Len(fs[t.rdest].c) = 1
    /\ fs0[t.rdest].k = "file"
    /\ fs[Src] = fs0[Src]

\* --- parent directories
\* The first transfer strategy, or anything after it, is under way.
AtOrPastStrategy ==
    pc \in {"f_rename", "f_rmdest", "f_reflink", "f_meta", "c_open", "c_loop",
            "c_flush", "f_rmsrc"}

\* An ancestor of the resolved destination is a regular file.
BlockingFiles == {q \in Paths : IsProperPrefix(q, R0) /\ fs0[q].k = "file"}

C22_Pre ==
    /\ call.entry = "move_or_copy"
    /\ fs0[Src].k = "file"

\* C22 as stated: with a regular file among the ancestors of the resolved
\* destination the transfer fails with the 'Not a directory' error and
\* changes nothing.
C22_Original ==
    (C22_Pre /\ BlockingFiles # {}) =>
        /\ fs = fs0
        /\ pc = "done" => (result.kind = "Io" /\ result.err = "NotADirectory")

\* C22 (amended): whenever a transfer strategy is attempted every ancestor
\* of the resolved destination is a directory; with a regular file among
\* those ancestors the transfer changes nothing (the source keeps its
\* content, the destination does not exist, the blocking file stays a regular
\* file) and fails with an I/O error: 'File exists' when the blocking file
\* is the destination's parent itself, 'Not a directory' when it is a
\* farther ancestor.
C22_ParentDirectories ==
    C22_Pre =>
        /\ AtOrPastStrategy =>
              \A q \in Paths : IsProperPrefix(q, t.rdest) => fs[q].k = "dir"
        /\ BlockingFiles # {} =>
              /\ fs = fs0
              /\ ~AtOrPastStrategy
              /\ pc = "done" =>
                    /\ result.kind = "Io"
                    /\ result.err = (IF fs0[Parent(R0)].k = "file"
                                     THEN "AlreadyExists" ELSE "NotADirectory")

C22_Witness ==
    /\ C22_Pre /\ BlockingFiles # {}
    /\ pc = "done" /\ result.err = "NotADirectory"
    /\ Len(R0) = 3 /\ fs0[Parent(R0)].k = "none"

\* --- the order of a merge
\* The source's regular files in the starting tree, and their one
\* arrangement in increasing order of path text.
SrcFiles0 == {Join(MSrc, r) : r \in SrcFileRels}

ByPathText(S) ==
    CHOOSE s \in ReadDirOrders(S) :
        \A i, j \in 1..Len(s) : i < j => StrLess(PathText(s[i]), PathText(s[j]))

\* The merge hands its next file to the file transfer.
StartsTransfer == pc = "m_poll" /\ pc' = "f_ensure"

\* C23: whatever order the operating system lists the directory entries in,
\* the files a merge works through, and the order in which it starts their
\* transfers, are the one sequence fixed by the source tree alone (its files
\* in increasing order of path text): the n-th transfer started is the n-th
\* file of that sequence.
C23_Pre == call.entry = "merge_or_copy" /\ fs0[MSrc].k = "dir"

C23_DeterministicOrder ==
    /\ []((C23_Pre /\ m.k >= 1) => m.files = ByPathText(SrcFiles0))
    /\ [][(C23_Pre /\ StartsTransfer) =>
              /\ Len(m.msgs) < Cardinality(SrcFiles0)
              /\ t'.src = ByPathText(SrcFiles0)[Len(m.msgs) + 1]]_vars

C23_Witness ==
    /\ C23_Pre /\ Returned("Ok")
    /\ m.resorted
    /\ Len(m.files) >= 3
    /\ Len(m.msgs) = Len(m.files)

\* The traversal the claim describes: at each directory level the entries in
\* increasing order of path text, a file at its own position, a
\* subdirectory's whole content at the subdirectory's position.
RECURSIVE LevelOrder(_, _)
RECURSIVE LevelConcat(_, _, _)
LevelConcat(f, entries, i) ==
    IF i > Len(entries) THEN << >>
    ELSE (IF f[entries[i]].k = "file" THEN <<entries[i]>>
          ELSE LevelOrder(f, entries[i])) \o LevelConcat(f, entries, i + 1)

LevelOrder(f, dir) == LevelConcat(f, ByPathText(Children(f, dir)), 1)

\* A subdirectory that holds files stands next to an entry whose name is the
\* subdirectory's name followed by a character sorting before '/' (47).
PrefixSiblings ==
    \E p, q \in Paths :
        /\ p # Root /\ q # Root /\ p # q /\ Parent(p) = Parent(q)
        /\ IsProperPrefix(MSrc, q)
        /\ fs0[q].k = "dir" /\ (\E x \in SrcFiles0 : IsProperPrefix(q, x))
        /\ fs0[p].k = "file" \/ (\E x \in SrcFiles0 : IsProperPrefix(p, x))
        /\ IsProperPrefix(NameChars(FileName(q)), NameChars(FileName(p)))
        /\ NameChars(FileName(p))[Len(NameChars(FileName(q))) + 1] < 47

C24_Pre == call.entry = "merge_or_copy" /\ fs0[MSrc].k = "dir" /\ m.k >= 1

StartsSource == pc = "b_loop" /\ pc' \in {"f_ensure", "m_check"}

InTransfer ==
    pc \in {"f_ensure", "f_mkparent", "f_rename", "f_rmdest", "f_reflink",
            "f_meta", "c_open", "c_loop", "c_flush", "f_rmsrc", "m_check",
            "m_collect", "m_poll", "m_next", "m_rm", "m_rmdir"}

C25_Pre == call.entry = "run_batch" /\ ~call.dry_run

\* C25: in normal mode the sources are started in the caller's order, one
\* at a time: the source started is srcs[n+1] where n sources have completed
\* and had their summary line printed; a summary line is printed only for the
\* source that just completed, right after it; and while a source is being
\* transferred exactly the lines of the sources before it are out.
C25_BatchOrderAndStreaming ==
    /\ [][C25_Pre =>
              /\ StartsSource =>
                    /\ Len(out) = bi - 1
                    /\ IF pc' = "f_ensure" THEN t'.src = call.srcs[Len(out) + 1]
                       ELSE m'.src = call.srcs[Len(out) + 1]
              /\ out' # out =>
                    /\ pc \in {"b_file_done", "b_dir_done"}
                    /\ Len(out') = Len(out) + 1
                    /\ SubSeq(out', 1, Len(out)) = out
                    /\ out'[Len(out')].src = call.srcs[Len(out')]
                    /\ out'[Len(out')].msg \in SuccessMsgs
                    /\ pc' \in {"b_loop", "done"}
              /\ bi' # bi => (bi' = bi + 1 /\ (bi = 0 \/ out' # out))]_vars
    /\ []((C25_Pre /\ InTransfer) =>
             /\ Len(out) = bi - 1
             /\ \A i \in 1..Len(out) : out[i].src = call.srcs[i])

C25_Witness ==
    /\ C25_Pre /\ Returned("Ok")
    /\ call.srcs = <<SrcB, SrcA>>
    /\ Len(out) = 2
    /\ out[1].src = SrcB /\ out[2].src = SrcA
    /\ SrcIsDir(1)

\* --- cancellation inside a merge
\* The merge took the 130 exit at the k-th file of its order.
MergeExitedAt(k) ==
    /\ call.entry = "merge_or_copy"
    /\ pc = "exit130"
    /\ m.k = k

\* The top-level entry of the source directory a file lies in or is.
TopEntryOf(file) == Head(StripPrefix(MSrc, file))

FileSteps == {"f_ensure", "f_mkparent", "f_rename", "f_rmdest", "f_reflink",
              "f_meta", "c_open", "c_loop", "c_flush", "f_rmsrc"}

\* C27: with the flag set and no second signal, a file transfer under way
\* goes on as it would without the flag (it leaves its steps only by
\* returning) and the 130 exit is taken only at the head of the merge loop;
\* at that exit every file before the current one is completely transferred,
\* every other file is untouched at its source with its destination path as
\* it was, no file anywhere holds part of a copy, and in Move mode every
\* directory of the source tree is still there.
C27_FileAtomicCancellation ==
    /\ [][(call.entry = "merge_or_copy" /\ pc \in FileSteps /\ pc' # "killed") =>
              /\ pc' \in FileSteps \cup {"m_next", "done"}
              /\ pc' = "done" => result'.kind # "Ok"]_vars
    /\ [](\A k \in 1..Cardinality(SrcFiles0) :
            MergeExitedAt(k) =>
              /\ \A i \in 1..(k - 1) :
                    /\ fs[MergeDestOf(StripPrefix(MSrc, m.files[i]))]
                          = FileN(fs0[m.files[i]].c)
                    /\ IF call.moc = "Move" THEN fs[m.files[i]].k = "none"
                       ELSE fs[m.files[i]] = fs0[m.files[i]]
              /\ \A i \in k..Len(m.files) :
                    /\ fs[m.files[i]] = fs0[m.files[i]]
                    /\ fs[MergeDestOf(StripPrefix(MSrc, m.files[i]))]
                          = fs0[MergeDestOf(StripPrefix(MSrc, m.files[i]))]
              /\ \A p \in Paths :
                    (fs[p].k = "file" /\ fs[p] # fs0[p]) =>
                        \E i \in 1..(k - 1) :
                            /\ p = MergeDestOf(StripPrefix(MSrc, m.files[i]))
                            /\ fs[p].c = fs0[m.files[i]].c
              /\ \A q \in Paths :
                    (IsPrefix(MSrc, q) /\ fs0[q].k = "dir") => fs[q].k = "dir")

C27_Witness ==
    /\ MergeExitedAt(2)
    /\ call.moc = "Move"
    /\ nsig = 1
    /\ m.msgs = <<"Moved">>
    /\ Len(fs0[m.files[1]].c) = 2
    /\ Len(prog) = 2
    /\ Len(m.files) = 3

\* --- values passed to the progress callback
\* C28: in a single transfer the callback is invoked exactly in the steps
\* of the copy loop that write a chunk, each time with the number of bytes
\* the destination then holds; the j-th value is j chunks, so the values
\* never decrease; when the transfer returns success after a copy, as many
\* values were reported as the source had bytes and the last one is that
\* length; when it returns success by rename or reflink no value was
\* reported.
C28_FallbackProgressValues ==
    /\ [][call.entry = "move_or_copy" =>
              /\ prog' # prog =>
                    /\ pc = "c_loop"
                    /\ Len(fs'[t.rdest].c) = Len(fs[t.rdest].c) + 1
                    /\ prog' = Append(prog, [file |-> t.src,
                                             n |-> Len(fs'[t.rdest].c)])
              /\ (pc = "c_loop" /\ fs'[t.rdest] # fs[t.rdest]) => prog' # prog]_vars
    /\ [](call.entry = "move_or_copy" =>
              /\ \A j \in 1..Len(prog) : prog[j].n = j
              /\ \A j \in 2..Len(prog) : prog[j].n >= prog[j - 1].n
              /\ (Returned("Ok") /\ t.msg \in {"Moved", "Copied"}) =>
                    /\ Len(prog) = Len(fs0[t.src].c)
                    /\ prog # << >> => prog[Len(prog)].n = Len(fs0[t.src].c)
              /\ (Returned("Ok") /\ t.msg \in {"Renamed", "Reflinked"}) =>
                    prog = << >>)

C28_Witness ==
    /\ call.entry = "move_or_copy"
    /\ Returned("Ok")
    /\ t.msg = "Moved"
    /\ prog = <<[file |-> t.src, n |-> 1], [file |-> t.src, n |-> 2]>>
    /\ Len(fs0[t.src].c) = 2

\* --- the aggregate progress position of a merge
\* Total size of the files before the k-th of the merge's order, and the part
\* of it that went through the buffered copy.
SizeBefore(k) == TotalSize(fs0, SubSeq(m.files, 1, k - 1))

RECURSIVE CopiedBefore(_)
CopiedBefore(k) ==
    IF k <= 1 THEN 0
    ELSE CopiedBefore(k - 1)
           + (IF m.msgs[k - 1] \in {"Moved", "Copied"}
              THEN Len(fs0[m.files[k - 1]].c) ELSE 0)

\* The k-th file of the merge is in its buffered copy and the callback ran.
CopyingFile(k) ==
    /\ call.entry = "merge_or_copy"
    /\ m.k = k
    /\ pc \in {"c_loop", "c_flush", "f_rmsrc"}
    /\ t.copied > 0

\* The loop over the files has ended with every file transferred.
LoopCompleted ==
    /\ call.entry = "merge_or_copy"
    /\ pc = "m_rm"
    /\ m.files # << >>

\* C29: while the k-th file of a merge is copied, the aggregate position is
\* the total size of the files before it plus the bytes copied of it,
\* whatever way the earlier files were transferred; when the loop has ended
\* the position equals the total computed up front.
C29_MergeProgressOffset ==
    /\ \A k \in 1..Cardinality(SrcFiles0) :
          CopyingFile(k) => m.pos = SizeBefore(k) + t.copied
    /\ LoopCompleted => m.pos = m.total

\* What the position is: only the bytes that went through the copy loop.
C29_Observed ==
    /\ \A k \in 1..Cardinality(SrcFiles0) :
          CopyingFile(k) => m.pos = CopiedBefore(k) + t.copied
    /\ LoopCompleted => m.pos = CopiedBefore(Len(m.files) + 1)

C29_Witness ==
    /\ CopyingFile(2)
    /\ m.msgs = <<"Renamed">>
    /\ Len(fs0[m.files[1]].c) = 2
    /\ t.copied = 1
    /\ m.pos = 1

\* --- what a merge does to its source tree
\* The paths the source tree had at the start.
SrcTree0 == {p \in Paths : IsPrefix(MSrc, p) /\ fs0[p].k # "none"}

\* The step removes a directory of the source tree.
RemovesSrcDir(q) == fs0[q].k = "dir" /\ fs[q].k = "dir" /\ fs'[q].k # "dir"

\* C30: in Copy mode every file and directory the source tree had stays as
\* it was, in every state of the merge; in Move mode a directory of the
\* source tree is removed only after the loop has transferred every file of
\* the list, and only when nothing is left inside it.
C30_SourceDirectoryRemoval ==
    /\ []((call.entry = "merge_or_copy" /\ call.moc = "Copy") =>
              \A p \in SrcTree0 : fs[p] = fs0[p])
    /\ [][(call.entry = "merge_or_copy" /\ call.moc = "Move") =>
              \A q \in SrcTree0 :
                  RemovesSrcDir(q) =>
                      /\ pc = "m_rmdir"
                      /\ Len(m.msgs) = Len(m.files)
                      /\ Children(fs, q) = {}]_vars

\* What holds: a copy never removes a source directory and changes a source
\* file only where that file is itself the destination of a file of the
\* merge (the overwrite under force removes it); the Move half as stated.
C30_Observed ==
    /\ []((call.entry = "merge_or_copy" /\ call.moc = "Copy") =>
              \A p \in SrcTree0 :
                  \/ fs[p] = fs0[p]
                  \/ /\ fs0[p].k = "file"
                     /\ call.force
                     /\ \E x \in SrcFiles0 : p = Join(MDst, StripPrefix(MSrc, x)))
    /\ [][(call.entry = "merge_or_copy" /\ call.moc = "Move") =>
              \A q \in SrcTree0 :
                  RemovesSrcDir(q) =>
                      /\ pc = "m_rmdir"
                      /\ Len(m.msgs) = Len(m.files)
                      /\ Children(fs, q) = {}]_vars

\* A forced copy of a directory onto itself returned an error with a source
\* file gone.
C30_Witness ==
    /\ call.entry = "merge_or_copy"
    /\ call.moc = "Copy" /\ call.force
    /\ MDst = MSrc
    /\ pc = "done" /\ result.kind = "Io" /\ result.err = "NotFound"
    /\ faults = 0
    /\ \E p \in SrcFiles0 : fs[p].k = "none"

\* --- a resolution that fails
\* C31: when a single transfer returns one of ensure_dest's errors, the
\* whole tree is as it was when the call started (no directory created, no
\* file changed); a source that does not exist makes the transfer return
\* 'source does not exist' for every destination, and the other resolution
\* errors are returned exactly in their cases.
C31_ResolutionHasNoSideEffects ==
    call.entry = "move_or_copy" =>
        /\ (pc = "done" /\ result.kind \in EnsureErrors) => fs = fs0
        /\ (pc = "done" /\ fs0[Src].k = "none") => Returned("SourceNotFound")
        /\ (pc = "done" /\ fs0[Src].k = "dir") => Returned("SourceNotFile")
        /\ Returned("DestNotFile") => fs0[R0].k = "dir"
        /\ Returned("DestExists") => fs0[R0].k = "file" /\ ~call.force

C31_Witness ==
    /\ call.entry = "move_or_copy"
    /\ Returned("SourceNotFound")
    /\ call.dest = P(<<"d", "a.txt", "a">>)
    /\ fs0[DestD].k = "dir"
    /\ fs0[<<"d", "a.txt">>].k = "none"
    /\ fs = fs0

\* --- kind mismatches
\* The call's source or destination is of the wrong kind for its entry
\* point, on the tree the call started from.
FileDestIsDir ==
    /\ call.entry = "move_or_copy"
    /\ fs0[Src].k = "file"
    /\ fs0[R0].k = "dir"

FileSrcIsDir == call.entry = "move_or_copy" /\ fs0[Src].k = "dir"

MergeDestIsFile ==
    /\ call.entry = "merge_or_copy"
    /\ fs0[Src].k = "dir"
    /\ fs0[MDst].k = "file"

MergeSrcIsFile == call.entry = "merge_or_copy" /\ fs0[Src].k = "file"

\* C32: with force on or off, a file transfer whose resolved destination is
\* a directory returns 'already exists and is not a file', a file transfer
\* of a directory returns 'not a file', a merge of a regular file returns
\* 'not a directory', and a merge into a regular file returns an error; in
\* each of these calls the tree stays as it was in every state.
C32_KindMismatchNotOverridden ==
    /\ FileDestIsDir => fs = fs0 /\ (pc = "done" => Returned("DestNotFile"))
    /\ FileSrcIsDir => fs = fs0 /\ (pc = "done" => Returned("SourceNotFile"))
    /\ MergeSrcIsFile => fs = fs0 /\ (pc = "done" => Returned("SourceNotDir"))
    /\ MergeDestIsFile =>
          /\ fs = fs0
          /\ pc = "done" => /\ result.kind \in {"DestNotDir", "Io"}
                            /\ result.kind = "DestNotDir" <=> ~call.dest.slash

C32_Witness ==
    /\ FileDestIsDir
    /\ call.force
    /\ call.dest = P(DestD)
    /\ Returned("DestNotFile")
    /\ result.path = <<"d", "a">>

\* --- the source of a copy
C33_Pre ==
    /\ call.entry = "move_or_copy"
    /\ call.moc = "Copy"
    /\ fs0[Src].k = "file"

\* C33: when a Copy-mode transfer of a regular file has returned, with Ok
\* or with an error, the source path still holds the file with the content
\* it had - whatever the destination and force are, the source itself as
\* destination included.
C33_CopyKeepsSource ==
    (C33_Pre /\ pc = "done") => fs[Src] = fs0[Src]

\* What holds: the source is kept in every state of every copy whose
\* resolved destination is another path, or that runs without force.
C33_Observed ==
    (C33_Pre /\ (R0 # Src \/ ~call.force)) => fs[Src] = fs0[Src]

\* A forced copy of a file onto itself returned 'not found' with the file
\* gone.
C33_Witness ==
    /\ C33_Pre
    /\ call.force
    /\ R0 = Src
    /\ Returned("Io") /\ result.err = "NotFound"
    /\ faults = 0
    /\ fs[Src].k = "none"
    /\ Len(fs0[Src].c) > 0

\* --- an overwrite whose primitive fails
C34_Pre ==
    /\ call.entry = "move_or_copy"
    /\ call.force
    /\ fs0[Src].k = "file"
    /\ fs0[R0].k = "file"
    /\ R0 # Src

\* The native primitive returns, in this step, an error that does not fall
\* back to the buffered copy.
PrimitiveFailsForGood ==
    /\ PrimitiveStep
    /\ ~PrimitiveResult.ok
    /\ PrimitiveResult.err \notin FallbackErrors

\* C34: with force on and a regular file at the resolved destination, when
\* the native primitive fails with an error that is returned without a
\* fallback, the transfer returns with the destination file still holding
\* the content it had, in Move mode and in Copy mode.
C34_FailedOverwriteKeepsDest ==
    [][(C34_Pre /\ PrimitiveFailsForGood) =>
          /\ pc' = "done" /\ result'.kind = "Io"
          /\ fs'[R0] = fs0[R0]]_vars

\* What holds: the source is kept in both modes; a failed rename leaves the
\* destination as it was; a failed clone finds and leaves the destination
\* path empty, the old file having been removed before the attempt.
C34_Observed ==
    [][(C34_Pre /\ PrimitiveFailsForGood) =>
          /\ pc' = "done" /\ result'.kind = "Io"
          /\ fs'[Src] = fs0[Src]
          /\ IF call.moc = "Move" THEN fs'[R0] = fs0[R0]
             ELSE fs'[R0].k = "none"]_vars

\* A forced copy over an existing file returned the clone's error with the
\* old destination gone.
C34_Witness ==
    /\ C34_Pre
    /\ call.moc = "Copy"
    /\ Returned("Io") /\ result.err = "Other"
    /\ result.path = R0
    /\ prog = << >>
    /\ Len(fs0[R0].c) > 0
    /\ fs[R0].k = "none"
    /\ fs[Src] = fs0[Src]

\* --- where a merge puts its files
C35_Pre ==
    /\ call.entry = "merge_or_copy"
    /\ fs0[MSrc].k = "dir"

\* C35: after a merge returned Ok, every regular file the source tree had
\* at relative path r is a regular file with that content at r below the
\* destination, also where the destination had a directory at r.
C35_FilesAtRelativePath ==
    (C35_Pre /\ Returned("Ok")) =>
        \A r \in SrcFileRels :
            fs[Join(MDst, r)] = FileN(fs0[Join(MSrc, r)].c)

\* What holds: the file is at r unless the destination had a directory
\* there; then that directory is still a directory and the file is inside
\* it under its own name.
C35_Observed ==
    (C35_Pre /\ Returned("Ok")) =>
        \A r \in SrcFileRels :
            /\ fs[MergeDestOf(r)] = FileN(fs0[Join(MSrc, r)].c)
            /\ fs0[Join(MDst, r)].k = "dir" =>
                  /\ fs[Join(MDst, r)].k = "dir"
                  /\ MergeDestOf(r) = Join(MDst, r \o <<r[Len(r)]>>)

C35_Witness ==
    /\ C35_Pre /\ Returned("Ok")
    /\ call.moc = "Move"
    /\ ~call.force
    /\ \E r \in SrcFileRels :
          /\ fs0[Join(MDst, r)].k = "dir"
          /\ fs[Join(MDst, r)].k = "dir"
          /\ Len(fs0[Join(MSrc, r)].c) > 0
          /\ fs[Join(MDst, r \o <<r[Len(r)]>>)] = FileN(fs0[Join(MSrc, r)].c)

\* --- how long a cancellation takes
\* The handler has run to its end for the first signal.
HandlerStored == nsig >= 1 /\ hpc = "idle"

PollPoints == {"b_loop", "m_poll"}

\* The main thread starts a source of the batch or a file of a merge.
StartsWork ==
    \/ pc = "b_loop" /\ pc' \in {"f_ensure", "m_check"}
    \/ pc = "m_poll" /\ pc' = "f_ensure"

\* C36: however the handler's steps fall between the main thread's, the
\* flag is set from the end of the first signal's handler on; from then on
\* no poll lets a source or a file start, so only the transfer that was
\* under way goes on; the first poll point reached takes the 130 exit (or a
\* second signal ends the process); a run that does not reach a poll point
\* ends by returning; and every run with the flag set does end.
C36_BoundedCancellation ==
    /\ [](HandlerStored => ctrlc)
    /\ [][ctrlc =>
            /\ ~StartsWork
            /\ (pc \in PollPoints /\ pc' # pc) => pc' \in {"exit130", "killed"}
            /\ (pc' = "exit130" /\ pc # "exit130") => pc \in PollPoints]_vars
    /\ (ctrlc ~> pc \in Terminal)

C36_Witness ==
    /\ call.entry = "run_batch"
    /\ pc = "exit130"
    /\ nsig = 1
    /\ bi = 2
    /\ out = <<[src |-> call.srcs[1], msg |-> "Copied"]>>
    /\ Len(prog) = 2
    /\ fs[call.srcs[2]] = fs0[call.srcs[2]]

\* --- a source that fails
\* run_batch returned the error of the transfer of its k-th source.
BatchFailedAt(k) ==
    /\ call.entry = "run_batch"
    /\ ~call.dry_run
    /\ pc = "done"
    /\ result.kind \notin {"Ok"} \cup ValidationErrors
    /\ bi = k

\* The paths of the starting tree at or below p.
Subtree0(p) == {q \in Paths : IsPrefix(p, q) /\ fs0[q].k # "none"}

\* Source i's files are where a completed transfer puts them.
StaysTransferred(i) ==
    \A x \in Transfers :
        x[1] = i =>
            /\ fs[DestPathOf(x)] = FileN(fs0[x[2]].c)
            /\ IF call.moc = "Move" THEN fs[x[2]].k = "none"
               ELSE fs[x[2]] = fs0[x[2]]

\* C37: when the transfer of source k returns an error, run_batch returns
\* it at once (the step that fails ends the run, and nothing changes after
\* it); the k-1 sources before it are reported and their files are at their
\* destinations (gone from the source in Move mode, unchanged there in Copy
\* mode); no later source was started and every path of every later source
\* is as it was.
C37_FailingSourceAborts ==
    /\ [](\A k \in 1..NSrcs :
            BatchFailedAt(k) =>
              /\ Len(out) = k - 1
              /\ \A i \in 1..(k - 1) : StaysTransferred(i)
              /\ \A i \in (k + 1)..NSrcs :
                    \A q \in Subtree0(call.srcs[i]) : fs[q] = fs0[q])
    /\ [][(call.entry = "run_batch" /\ pc' = "done" /\ pc # "done"
             /\ result'.kind # "Ok") =>
              (pc \notin {"b_file_done", "b_dir_done"} /\ out' = out)]_vars

\* The destination paths source k would write.
DestPathsOf(k) == {DestPathOf(y) : y \in {z \in Transfers : z[1] = k}}

\* What holds: as stated, except that a file of an earlier source whose
\* destination path the failing source writes as well, under force, may be
\* gone or cut short there.
C37_Observed ==
    /\ [](\A k \in 1..NSrcs :
            BatchFailedAt(k) =>
              /\ Len(out) = k - 1
              /\ \A i \in 1..(k - 1) :
                    \A x \in Transfers :
                        x[1] = i =>
                            /\ \/ fs[DestPathOf(x)] = FileN(fs0[x[2]].c)
                               \/ call.force /\ DestPathOf(x) \in DestPathsOf(k)
                            /\ IF call.moc = "Move" THEN fs[x[2]].k = "none"
                               ELSE fs[x[2]] = fs0[x[2]]
              /\ \A i \in (k + 1)..NSrcs :
                    \A q \in Subtree0(call.srcs[i]) : fs[q] = fs0[q])
    /\ [][(call.entry = "run_batch" /\ pc' = "done" /\ pc # "done"
             /\ result'.kind # "Ok") =>
              (pc \notin {"b_file_done", "b_dir_done"} /\ out' = out)]_vars

\* The second source of a forced move failed in its copy loop after it had
\* truncated the file the first source had just been moved to.
C37_Witness ==
    /\ BatchFailedAt(2)
    /\ call.moc = "Move" /\ call.force
    /\ out = <<[src |-> call.srcs[1], msg |-> "Merged"]>>
    /\ \E x \in Transfers :
          /\ x[1] = 1
          /\ Len(fs0[x[2]].c) > 0
          /\ fs[x[2]].k = "none"
          /\ DestPathOf(x) \in DestPathsOf(2)
          /\ fs[DestPathOf(x)].k = "file"
          /\ \A j \in 1..Len(fs[DestPathOf(x)].c) :
                fs[DestPathOf(x)].c[j].o # x[2]

\* --- two sources, one destination path
\* The files of the first and of the second source that go to one
\* destination path.
Collisions ==
    {xy \in Transfers \X Transfers :
        /\ xy[1][1] = 1 /\ xy[2][1] = 2
        /\ DestPathOf(xy[1]) = DestPathOf(xy[2])}

C38_Pre ==
    /\ call.entry = "run_batch"
    /\ ~call.dry_run
    /\ ValidBatch
    /\ NSrcs = 2
    /\ call.srcs[1] # call.srcs[2]
    /\ Collisions # {}

\* C38: for a batch of two different sources with files that go to the
\* same destination path: with force off the batch never returns Ok, and
\* when that path was free at the start and no I/O error occurs it returns
\* the second source's 'already exists' error naming that path, with the
\* first source's file in place there (and gone from the source in Move
\* mode) and the second source exactly as it was; with force on it returns
\* Ok when no I/O error occurs, and then the path holds the content of the
\* second source's file.
C38_CollidingDestinations ==
    C38_Pre =>
        \A xy \in Collisions :
            LET p == DestPathOf(xy[1]) IN
            IF ~call.force
            THEN /\ ~Returned("Ok")
                 /\ (pc = "done" /\ faults = 0 /\ fs0[p].k = "none") =>
                       /\ BatchFailedAt(2)
                       /\ result.kind = "DestExists" /\ result.path = p
                       /\ fs[p] = FileN(fs0[xy[1][2]].c)
                       /\ call.moc = "Move" => fs[xy[1][2]].k = "none"
                       /\ \A q \in Subtree0(call.srcs[2]) : fs[q] = fs0[q]
            ELSE /\ (pc = "done" /\ faults = 0) => Returned("Ok")
                 /\ Returned("Ok") => fs[p] = FileN(fs0[xy[2][2]].c)

C38_Witness ==
    /\ C38_Pre
    /\ call.force
    /\ call.moc = "Move"
    /\ Returned("Ok")
    /\ SrcIsFile(1)
    /\ out = <<[src |-> call.srcs[1], msg |-> "Renamed"],
               [src |-> call.srcs[2], msg |-> "Renamed"]>>
    /\ fs0[call.srcs[1]].c # << >>
    /\ fs[<<"d", "a">>] = FileN(fs0[call.srcs[2]].c)

\* --- what force may replace
\* The destination paths that correspond to a source file, and the path
\* inside the directory the destination has at such a path.
CorrespondingPaths == {DestPathOf(x) : x \in Transfers}

InsidePaths ==
    {Join(DestPathOf(x), <<x[2][Len(x[2])]>>) :
        x \in {y \in Transfers : /\ SrcIsDir(y[1])
                                 /\ Len(DestPathOf(y)) < MaxDepth
                                 /\ fs0[DestPathOf(y)].k = "dir"}}

C39_Pre == call.entry = "run_batch"

\* C39: in every state of every run of run_batch, every directory the
\* destination had at the start is still a directory, and every regular
\* file the destination had at a path that corresponds to no source file
\* is there with its content.
C39_ForceReplacesOnlyFiles ==
    C39_Pre =>
        \A q \in Paths :
            IsPrefix(call.dest.p, q) =>
                /\ fs0[q].k = "dir" => fs[q].k = "dir"
                /\ (fs0[q].k = "file" /\ q \notin CorrespondingPaths) =>
                      fs[q] = fs0[q]

\* What holds: the directories stay; a destination file at a path that
\* corresponds to no source file stays unless it is the file of a source
\* file's name inside the directory the destination has at that source
\* file's path, and then only force lets it be replaced.
C39_Observed ==
    C39_Pre =>
        \A q \in Paths :
            IsPrefix(call.dest.p, q) =>
                /\ fs0[q].k = "dir" => fs[q].k = "dir"
                /\ (fs0[q].k = "file" /\ q \notin CorrespondingPaths) =>
                      \/ fs[q] = fs0[q]
                      \/ call.force /\ q \in InsidePaths

C39_Witness ==
    /\ C39_Pre /\ ~call.dry_run
    /\ call.force
    /\ Returned("Ok")
    /\ fs0[<<"d", "a">>].k = "dir"
    /\ fs0[<<"d", "a", "a">>].k = "file"
    /\ <<"d", "a", "a">> \notin CorrespondingPaths
    /\ fs[<<"d", "a", "a">>] = FileN(fs0[<<"a", "a">>].c)
    /\ fs[<<"d", "a", "a">>] # fs0[<<"d", "a", "a">>]

====
